---- MODULE Spec2Model ----
(***************************************************************************)
(* Model of the 10kV feeder reliability calculation (SAIDI / SAIFI / ASAI) *)
(* of src/workspace/reliability_framework.py, with the variants in         *)
(* src/workspace/reliability_calc_jingshuixian.py and src/document/.       *)
(*                                                                         *)
(* Numbers.  A Python / numpy float is modelled as an exact extended       *)
(* rational <<n, d>> in lowest terms with d >= 0:                          *)
(*     d > 0        the finite value n/d                                   *)
(*     <<1, 0>>     +inf          <<-1, 0>>    -inf                        *)
(*     <<0, 0>>     NaN                                                    *)
(* Binary rounding error of IEEE doubles and signed zeros are not          *)
(* modelled; NaN and the infinities are, because float() parses them and   *)
(* numpy division by zero produces them.                                   *)
(*                                                                         *)
(* Text.  A Python str is modelled as a sequence of one-character strings. *)
(***************************************************************************)
EXTENDS Integers, Sequences, FiniteSets, TLC

\* ------------------------------------------------------------------------
\* Float arithmetic (Python float / numpy.float64)
\* ------------------------------------------------------------------------

Abs(n) == IF n < 0 THEN -n ELSE n

RECURSIVE Gcd(_, _)
Gcd(a, b) == IF b = 0 THEN a ELSE Gcd(b, a % b)

RECURSIVE Pow10(_)
Pow10(k) == IF k = 0 THEN 1 ELSE 10 * Pow10(k - 1)

NaN == <<0, 0>>
PosInf == <<1, 0>>
NegInf == <<-1, 0>>
Zero == <<0, 1>>
One == <<1, 1>>
Hundred == <<100, 1>>

\* the float n/d, d > 0, in lowest terms
Fin(n, d) == LET g == Gcd(Abs(n), d) IN <<n \div g, d \div g>>

IsNaN(x) == x = NaN
IsInf(x) == x[2] = 0 /\ x[1] # 0
IsFinite(x) == x[2] > 0
Sign(x) == IF x[1] > 0 THEN 1 ELSE IF x[1] < 0 THEN -1 ELSE 0

\* comparisons with 0; every comparison with NaN is False
GtZero(x) == ~IsNaN(x) /\ x[1] > 0
GeZero(x) == ~IsNaN(x) /\ x[1] >= 0
LeZero(x) == ~IsNaN(x) /\ x[1] <= 0

FNeg(x) == <<-x[1], x[2]>>

FAdd(a, b) ==
    IF IsNaN(a) \/ IsNaN(b) THEN NaN
    ELSE IF IsInf(a) /\ IsInf(b) THEN (IF a = b THEN a ELSE NaN)
    ELSE IF IsInf(a) THEN a
    ELSE IF IsInf(b) THEN b
    ELSE LET g == Gcd(a[2], b[2])
             l == (a[2] \div g) * b[2]
         IN Fin(a[1] * (l \div a[2]) + b[1] * (l \div b[2]), l)

FSub(a, b) == FAdd(a, FNeg(b))

FMul(a, b) ==
    IF IsNaN(a) \/ IsNaN(b) THEN NaN
    ELSE IF IsInf(a) \/ IsInf(b)
         THEN (IF Sign(a) = 0 \/ Sign(b) = 0 THEN NaN ELSE <<Sign(a) * Sign(b), 0>>)
    ELSE IF a[1] = 0 \/ b[1] = 0 THEN Zero
    ELSE LET g1 == Gcd(Abs(a[1]), b[2])
             g2 == Gcd(Abs(b[1]), a[2])
         IN <<(a[1] \div g1) * (b[1] \div g2), (a[2] \div g2) * (b[2] \div g1)>>

\* numpy.float64 true division: x/0 is +-inf or nan (a RuntimeWarning), never
\* an exception
FDiv(a, b) ==
    IF IsNaN(a) \/ IsNaN(b) THEN NaN
    ELSE IF IsInf(b) THEN (IF IsInf(a) THEN NaN ELSE Zero)
    ELSE IF b[1] = 0 THEN (IF Sign(a) = 0 THEN NaN ELSE <<Sign(a), 0>>)
    ELSE IF IsInf(a) THEN <<Sign(a) * Sign(b), 0>>
    ELSE FMul(a, IF b[1] > 0 THEN <<b[2], b[1]>> ELSE <<-b[2], -b[1]>>)

\* the integer nearest to m/dd, ties to even (dd > 0)
NearestEven(m, dd) ==
    IF 2 * (m % dd) < dd THEN m \div dd
    ELSE IF 2 * (m % dd) > dd THEN (m \div dd) + 1
    ELSE IF (m \div dd) % 2 = 0 THEN m \div dd ELSE (m \div dd) + 1

\* x rounded to the nearest multiple of 1/s, where g = gcd(x[2], s)
RoundScaled(x, s, g) ==
    IF x[2] = g THEN x
    ELSE Fin(NearestEven(x[1] * (s \div g), x[2] \div g), s)

\* round(x, digits): to the nearest multiple of 10^-digits, ties to even
round(x, digits) ==
    IF ~IsFinite(x) THEN x
    ELSE RoundScaled(x, Pow10(digits), Gcd(x[2], Pow10(digits)))

\* int(x) of a finite float: truncation toward zero
int(x) ==
    IF x[1] >= 0 THEN x[1] \div x[2] ELSE -((-x[1]) \div x[2])

\* round(..., 6) of the indicators and round(..., 4) of the lengths
Digits6 == 6
LengthDigits == 4

\* ------------------------------------------------------------------------
\* Text (Python str methods used by the parser)
\* ------------------------------------------------------------------------

Lower == <<"a", "b", "c", "d", "e", "f", "g", "h", "i", "j", "k", "l", "m",
           "n", "o", "p", "q", "r", "s", "t", "u", "v", "w", "x", "y", "z">>
Caps == <<"A", "B", "C", "D", "E", "F", "G", "H", "I", "J", "K", "L", "M",
          "N", "O", "P", "Q", "R", "S", "T", "U", "V", "W", "X", "Y", "Z">>
Digits == <<"0", "1", "2", "3", "4", "5", "6", "7", "8", "9">>

IsSpace(c) == c \in {" ", "\t", "\n", "\r"}

upperChar(c) ==
    IF \E i \in 1..26 : Lower[i] = c
    THEN Caps[CHOOSE i \in 1..26 : Lower[i] = c] ELSE c

lowerChar(c) ==
    IF \E i \in 1..26 : Caps[i] = c
    THEN Lower[CHOOSE i \in 1..26 : Caps[i] = c] ELSE c

\* str.upper()
upper(s) == [i \in 1..Len(s) |-> upperChar(s[i])]

\* str.lower()
lower(s) == [i \in 1..Len(s) |-> lowerChar(s[i])]

Min(S) == CHOOSE i \in S : \A j \in S : i <= j
Max(S) == CHOOSE i \in S : \A j \in S : i >= j

\* s cut to the span of the positions keep
Span(s, keep) == IF keep = {} THEN <<>> ELSE SubSeq(s, Min(keep), Max(keep))

\* str.strip(): leading and trailing whitespace removed
strip(s) == Span(s, {i \in 1..Len(s) : ~IsSpace(s[i])})

\* s up to the last of the positions keep
Upto(s, keep) == IF keep = {} THEN <<>> ELSE SubSeq(s, 1, Max(keep))

\* str.rstrip(c): every trailing c removed
rstrip(s, c) == Upto(s, {i \in 1..Len(s) : s[i] # c})

\* str.replace(a, b) for single characters
replace(s, a, b) == [i \in 1..Len(s) |-> IF s[i] = a THEN b ELSE s[i]]

\* str.split(sep) for a single-character separator
\* s cut in two at position i, the character at i dropped
CutAt(s, i) == <<SubSeq(s, 1, i - 1), SubSeq(s, i + 1, Len(s))>>

Positions(s, c) == {i \in 1..Len(s) : s[i] = c}

RECURSIVE split(_, _)
split(s, sep) ==
    IF Positions(s, sep) = {} THEN <<s>>
    ELSE <<CutAt(s, Min(Positions(s, sep)))[1]>>
         \o split(CutAt(s, Min(Positions(s, sep)))[2], sep)

\* str.rsplit(sep, 1) of a string that contains sep: split at the last sep
rsplit1(s, sep) == CutAt(s, Max(Positions(s, sep)))

\* c in s, for a character
HasChar(s, c) == \E i \in 1..Len(s) : s[i] = c

\* sub in s, for a substring
HasSub(s, sub) ==
    \E i \in 1..(Len(s) - Len(sub) + 1) : SubSeq(s, i, i + Len(sub) - 1) = sub

IsDigit(c) == \E i \in 1..10 : Digits[i] = c
DigitVal(c) == (CHOOSE i \in 1..10 : Digits[i] = c) - 1

RECURSIVE DigitsVal(_)
DigitsVal(s) ==
    IF s = <<>> THEN 0
    ELSE 10 * DigitsVal(SubSeq(s, 1, Len(s) - 1)) + DigitVal(s[Len(s)])

\* float(s): the value, or ValueError.  Grammar modelled: surrounding
\* whitespace, an optional sign, then nan | inf | infinity (any case) or
\* digits with at most one decimal point (no exponent, no underscores).
\* ValueError is a pair that is no float (its second component is negative).
ValueError == <<0, -1>>

\* the decimal number with integer digits ip and fraction digits fp
floatDecimal(sgn, ip, fp) ==
    IF /\ Len(ip) + Len(fp) > 0
       /\ \A i \in 1..Len(ip) : IsDigit(ip[i])
       /\ \A i \in 1..Len(fp) : IsDigit(fp[i])
    THEN Fin(sgn * DigitsVal(ip \o fp), Pow10(Len(fp)))
    ELSE ValueError

\* the unsigned part of the literal; dots: the positions of "." in it
floatBody(sgn, body, dots) ==
    IF lower(body) = <<"n", "a", "n">> THEN NaN
    ELSE IF lower(body) \in {<<"i", "n", "f">>,
                             <<"i", "n", "f", "i", "n", "i", "t", "y">>}
         THEN <<sgn, 0>>
    ELSE IF dots = {} THEN floatDecimal(sgn, body, <<>>)
    ELSE IF Cardinality(dots) = 1
         THEN floatDecimal(sgn,
                           SubSeq(body, 1, (CHOOSE i \in dots : TRUE) - 1),
                           SubSeq(body, (CHOOSE i \in dots : TRUE) + 1, Len(body)))
    ELSE ValueError

floatSigned(sgn, body) ==
    floatBody(sgn, body, {i \in 1..Len(body) : body[i] = "."})

floatStripped(s) ==
    IF s # <<>> /\ s[1] \in {"+", "-"}
    THEN floatSigned(IF s[1] = "-" THEN -1 ELSE 1, SubSeq(s, 2, Len(s)))
    ELSE floatSigned(1, s)

float(str) == floatStripped(strip(str))

\* ------------------------------------------------------------------------
\* Constants table (config["constants"] / CONSTANTS)
\* ------------------------------------------------------------------------

\* The constants are read from the parameter file, so they are an input of a
\* run.  TableA rounds the values of CONSTANTS to few digits; TableB swaps
\* the two fault rates so that the cable rate is the larger one and shortens
\* the scheduled outage, which gives group sums that round(..., 6) changes.
\* Both use a short reference period so that every intermediate value stays
\* within TLC's 32-bit integers.
TableA ==
    [Cable_Fault_Rate |-> <<1, 10>>,
     Overhead_Fault_Rate |-> <<3, 20>>,
     Auto_Isolation_Time |-> <<1, 2>>,
     Manual_Isolation_Time |-> <<2, 1>>,
     Cable_Repair_Time |-> <<3, 1>>,
     Scheduled_Outage_Rate |-> <<1, 50>>,
     Scheduled_Total_Time |-> <<5, 1>>,
     Annual_Power_Hours |-> <<100, 1>>]

TableB ==
    [TableA EXCEPT !.Cable_Fault_Rate = <<3, 20>>,
                   !.Overhead_Fault_Rate = <<1, 10>>,
                   !.Scheduled_Total_Time = <<4, 1>>]

ConstantTables == {TableA, TableB}

\* ------------------------------------------------------------------------
\* parse_laying_weights_and_fault_rate
\* ------------------------------------------------------------------------

NONE == <<"N", "O", "N", "E">>
JK == <<"J", "K">>

stripAll(parts) == [i \in 1..Len(parts) |-> strip(parts[i])]

\* segments = [x.strip() for x in s.replace("\r", "\n").split("\n") if x.strip()]
laying_segments(line_model) ==
    SelectSeq(stripAll(split(replace(strip(line_model), "\r", "\n"), "\n")),
              LAMBDA x : x # <<>>)

\* variant of laying_add: overhead only when the name starts with JK
laying_add_prefix(acc, name, w) ==
    IF SubSeq(name, 1, 2) = JK THEN <<acc[1], FAdd(acc[2], w)>>
    ELSE <<FAdd(acc[1], w), acc[2]>>

\* if "JK" in name: overhead_w += w, else: cable_w += w
laying_add(acc, name, w) ==
    IF HasSub(name, JK) THEN <<acc[1], FAdd(acc[2], w)>>
    ELSE <<FAdd(acc[1], w), acc[2]>>

\* try: w = float(...) / 100.0, except: continue
laying_weigh(acc, name, f) ==
    IF f = ValueError THEN acc ELSE laying_add(acc, name, FDiv(f, Hundred))

\* variant of laying_named: a NONE token is weighed like any other name
laying_named_keeps_none(acc, name_raw, pct) ==
    IF name_raw = <<>> THEN acc
    ELSE laying_weigh(acc, upper(name_raw), float(strip(rstrip(strip(pct), "%"))))

\* if name == "NONE" or not name_raw: continue
laying_named(acc, name_raw, pct) ==
    IF upper(name_raw) = NONE \/ name_raw = <<>> THEN acc
    ELSE laying_weigh(acc, upper(name_raw), float(strip(rstrip(strip(pct), "%"))))

\* parts = seg.rsplit(":", 1); name_raw = parts[0].strip()
laying_parts(acc, parts) == laying_named(acc, strip(parts[1]), parts[2])

\* one iteration of the loop over segments: the buckets <<cable_w, overhead_w>>
\* after the segment seg
laying_step(acc, seg) ==
    IF ~HasChar(seg, ":") THEN acc ELSE laying_parts(acc, rsplit1(seg, ":"))

RECURSIVE laying_loop(_, _, _)
laying_loop(segments, i, acc) ==
    IF i > Len(segments) THEN acc
    ELSE laying_loop(segments, i + 1, laying_step(acc, segments[i]))

\* the locals <<cable_w, overhead_w>> when the loop ends
laying_buckets(line_model) ==
    laying_loop(laying_segments(line_model), 1, <<Zero, Zero>>)

\* the returned (cable weight, overhead weight, fault rate); the description
\* string, which only formats the two weights, is left out
\* rate = (cable_w * Cable_Fault_Rate + overhead_w * Overhead_Fault_Rate) / total
\* return cable_w / total, overhead_w / total, rate
laying_result(cable_w, overhead_w, total, consts) ==
    [cableWeight |-> FDiv(cable_w, total),
     overheadWeight |-> FDiv(overhead_w, total),
     faultRate |-> FDiv(FAdd(FMul(cable_w, consts.Cable_Fault_Rate),
                             FMul(overhead_w, consts.Overhead_Fault_Rate)),
                        total)]

\* total = cable_w + overhead_w; if total <= 0: cable_w, overhead_w = 0.0, 1.0
laying_total(acc, total, consts) ==
    IF LeZero(total) THEN laying_result(Zero, One, One, consts)
    ELSE laying_result(acc[1], acc[2], total, consts)

laying_finish(acc, consts) == laying_total(acc, FAdd(acc[1], acc[2]), consts)

parse_laying_weights_and_fault_rate(line_model, consts) ==
    laying_finish(laying_buckets(line_model), consts)

\* ------------------------------------------------------------------------
\* Rows.  A cell of the sheet is a number, a text or empty:
\*     [kind |-> "num", num |-> float, text |-> <<>>]
\*     [kind |-> "str", num |-> NaN,  text |-> characters]
\*     [kind |-> "nan", num |-> NaN,  text |-> <<>>]
\* and the automation cell a bool or a text:
\*     [kind |-> "bool", b |-> BOOLEAN, text |-> <<>>]
\*     [kind |-> "str",  b |-> FALSE,   text |-> characters]
\* ------------------------------------------------------------------------

Num(n, d) == [kind |-> "num", num |-> Fin(n, d), text |-> <<>>]
Text(s) == [kind |-> "str", num |-> NaN, text |-> s]
Empty == [kind |-> "nan", num |-> NaN, text |-> <<>>]
Bool(b) == [kind |-> "bool", b |-> b, text |-> <<>>]
BoolText(s) == [kind |-> "str", b |-> FALSE, text |-> s]

\* pd.to_numeric(cell, errors="coerce")
coerce(f) == IF f = ValueError THEN NaN ELSE f

to_numeric(cell) ==
    IF cell.kind = "num" THEN cell.num
    ELSE IF cell.kind = "str" THEN coerce(float(cell.text))
    ELSE NaN

\* df[col] = pd.to_numeric(df[col], errors="coerce"), for both columns
coerce_columns(df) ==
    [i \in 1..Len(df) |->
        [df[i] EXCEPT !.length = to_numeric(df[i].length),
                      !.users = to_numeric(df[i].users)]]

\* variant of non_negative: a row with a zero length or user count is dropped
non_negative_strict(df) ==
    SelectSeq(df, LAMBDA r : GtZero(r.length) /\ GtZero(r.users))

\* df[(df[length] >= 0) & (df[users] >= 0)]
non_negative(df) ==
    SelectSeq(df, LAMBDA r : GeZero(r.length) /\ GeZero(r.users))

\* .dropna(subset=[length, users])
dropna(df) ==
    SelectSeq(df, LAMBDA r : ~IsNaN(r.length) /\ ~IsNaN(r.users))

clean_data(df) == dropna(non_negative(coerce_columns(df)))

TRUE_TEXT == <<"T", "R", "U", "E">>

get_isolation_time(auto_status, consts) ==
    IF auto_status.kind = "bool"
    THEN (IF auto_status.b THEN consts.Auto_Isolation_Time
          ELSE consts.Manual_Isolation_Time)
    ELSE IF upper(auto_status.text) = TRUE_TEXT THEN consts.Auto_Isolation_Time
    ELSE consts.Manual_Isolation_Time

\* str(x) of a cell of the automation column
to_str(x) ==
    IF x.kind = "bool"
    THEN (IF x.b THEN <<"T", "r", "u", "e">> ELSE <<"F", "a", "l", "s", "e">>)
    ELSE x.text

\* reliability_calculation.py, preprocess_data:
\* x if isinstance(x, bool) else (True if str(x).upper() == "TRUE" else False)
automation_state(x) ==
    IF x.kind = "bool" THEN x.b ELSE upper(to_str(x)) = TRUE_TEXT

\* df["自动化状态"].map(param_config["isolation_time"])
preprocess_isolation(x, consts) ==
    IF automation_state(x) THEN consts.Auto_Isolation_Time
    ELSE consts.Manual_Isolation_Time

\* reliability_algorithm.py, process_main / process_branch:
\* 自动化 if "TRUE" in str(x).upper() else 非自动化
r_iso(x, consts) ==
    IF HasSub(upper(to_str(x)), TRUE_TEXT) THEN consts.Auto_Isolation_Time
    ELSE consts.Manual_Isolation_Time

\* step 5 of run(): the parser's columns and the isolation time of one row
laying_columns(r, p, iso) ==
    [id |-> r.id, auto |-> r.auto, length |-> r.length, users |-> r.users,
     desc |-> r.desc, cableWeight |-> p.cableWeight,
     overheadWeight |-> p.overheadWeight, faultRate |-> p.faultRate,
     isolation |-> iso]

apply_laying(df, consts) ==
    [i \in 1..Len(df) |->
        laying_columns(df[i],
                       parse_laying_weights_and_fault_rate(df[i].desc, consts),
                       get_isolation_time(df[i].auto, consts))]

\* df[col].sum() over the rows 1..i
RECURSIVE column_sum(_, _, _)
column_sum(df, col, i) ==
    IF i = 0 THEN Zero ELSE FAdd(column_sum(df, col, i - 1), df[i][col])

sum(df, col) == column_sum(df, col, Len(df))

\* int(df[users].sum())
total_users(df) == int(sum(df, "users"))

\* ------------------------------------------------------------------------
\* calculate_segment_indicators
\* ------------------------------------------------------------------------

\* np.where(cond, x, 0)
where(cond, x) == IF cond THEN x ELSE Zero

\* variant of saidi_share: the segment's user count is left out
saidi_share_per_line(valid, count, hours, users, U) ==
    where(valid /\ U > 0, FDiv(FMul(count, hours), <<U, 1>>))

\* (count * hours * users) / line_total_users, where the row is valid and
\* line_total_users > 0
saidi_share(valid, count, hours, users, U) ==
    where(valid /\ U > 0, FDiv(FMul(FMul(count, hours), users), <<U, 1>>))

\* (count * users) / line_total_users, where the row is valid and
\* line_total_users > 0
saifi_share(valid, count, users, U) ==
    where(valid /\ U > 0, FDiv(FMul(count, users), <<U, 1>>))

indicator_columns(r, valid, faultCount, faultDuration, schedCount, saidiF, saifiF, saidiS, saifiS) ==
    [id |-> r.id, auto |-> r.auto, length |-> r.length, users |-> r.users,
     desc |-> r.desc, cableWeight |-> r.cableWeight,
     overheadWeight |-> r.overheadWeight, faultRate |-> r.faultRate,
     isolation |-> r.isolation, valid |-> valid,
     faultCount |-> faultCount, faultDuration |-> faultDuration,
     scheduledCount |-> schedCount,
     SAIDI_F |-> saidiF, SAIFI_F |-> saifiF,
     SAIDI_S |-> saidiS, SAIFI_S |-> saifiS,
     SAIDI_total |-> FAdd(saidiF, saidiS),
     SAIFI_total |-> FAdd(saifiF, saifiS)]

segment_shares(r, valid, faultCount, faultDuration, schedCount, U, consts) ==
    indicator_columns(r, valid, faultCount, faultDuration, schedCount,
        saidi_share(valid, faultCount, faultDuration, r.users, U),
        saifi_share(valid, faultCount, r.users, U),
        saidi_share(valid, schedCount, consts.Scheduled_Total_Time, r.users, U),
        saifi_share(valid, schedCount, r.users, U))

\* variant of segment_counts: the two event counts are not zeroed for a
\* segment without users
segment_counts_unguarded(r, valid, U, consts) ==
    segment_shares(r, valid,
        FMul(r.length, r.faultRate),
        FAdd(r.isolation, consts.Cable_Repair_Time),
        FMul(r.length, consts.Scheduled_Outage_Rate),
        U, consts)

segment_counts(r, valid, U, consts) ==
    segment_shares(r, valid,
        where(valid, FMul(r.length, r.faultRate)),
        FAdd(r.isolation, consts.Cable_Repair_Time),
        where(valid, FMul(r.length, consts.Scheduled_Outage_Rate)),
        U, consts)

calculate_segment_indicators(df, line_total_users, consts) ==
    [i \in 1..Len(df) |->
        segment_counts(df[i], GtZero(df[i].users), line_total_users, consts)]

\* ------------------------------------------------------------------------
\* calculate_summary
\* ------------------------------------------------------------------------

\* reliability_algorithm.py, summarize: (1 - total_saidi / 8760) * 100, with
\* the year's hours as a parameter
summarize_asai(total_saidi, annual_hours) ==
    FMul(FSub(One, FDiv(total_saidi, annual_hours)), Hundred)

\* variant of asai_formula: the outage hours are not scaled by the users
asai_formula_unscaled(saidi_total, users, annual_hours) ==
    FMul(FDiv(FSub(FMul(users, annual_hours), saidi_total),
              FMul(users, annual_hours)),
         Hundred)

\* ((theory_hours - outage_hours) / theory_hours) * 100
asai_formula(saidi_total, users, annual_hours) ==
    FMul(FDiv(FSub(FMul(users, annual_hours), FMul(saidi_total, users)),
              FMul(users, annual_hours)),
         Hundred)

\* variant of calculate_asai: no guard for a line without users
calculate_asai_unguarded(saidi_total, line_total_users, consts) ==
    asai_formula(saidi_total, <<line_total_users, 1>>,
                 consts.Annual_Power_Hours)

\* if line_total_users > 0: asai = formula, else: asai = 100.0
calculate_asai(saidi_total, line_total_users, consts) ==
    IF line_total_users > 0
    THEN asai_formula(saidi_total, <<line_total_users, 1>>,
                      consts.Annual_Power_Hours)
    ELSE Hundred

summary_record(total_length, U, faults, scheduled, saidi_f, saidi_s, saifi_f, saifi_s, consts) ==
    [total_length |-> round(total_length, LengthDigits),
     total_users |-> U,
     total_fault_count |-> round(faults, Digits6),
     total_scheduled_count |-> round(scheduled, Digits6),
     SAIDI_F |-> round(saidi_f, Digits6),
     SAIDI_S |-> round(saidi_s, Digits6),
     SAIDI_total |-> round(FAdd(saidi_f, saidi_s), Digits6),
     SAIFI_F |-> round(saifi_f, Digits6),
     SAIFI_S |-> round(saifi_s, Digits6),
     SAIFI_total |-> round(FAdd(saifi_f, saifi_s), Digits6),
     ASAI |-> round(calculate_asai(FAdd(saidi_f, saidi_s), U, consts), Digits6)]

calculate_summary(df, line_total_users, consts) ==
    summary_record(sum(df, "length"), line_total_users,
                   sum(df, "faultCount"), sum(df, "scheduledCount"),
                   sum(df, "SAIDI_F"), sum(df, "SAIDI_S"),
                   sum(df, "SAIFI_F"), sum(df, "SAIFI_S"), consts)

\* ------------------------------------------------------------------------
\* Step 9 of run(): the feeder record
\* ------------------------------------------------------------------------

\* (main[col] * main_total_users + branch[col] * branch_total_users)
\*     / all_total_users
weighted(m, b, col, Um, Ub) ==
    FDiv(FAdd(FMul(m[col], <<Um, 1>>), FMul(b[col], <<Ub, 1>>)),
         <<Um + Ub, 1>>)

\* variant of feeder_record: length and counts are user-weighted like the
\* intensity metrics
feeder_record_all_weighted(m, b, U, saidi_f, saidi_s, saifi_f, saifi_s, consts) ==
    [total_length |->
         round(weighted(m, b, "total_length", m.total_users, b.total_users),
               LengthDigits),
     total_users |-> U,
     total_fault_count |->
         round(weighted(m, b, "total_fault_count", m.total_users,
                        b.total_users), Digits6),
     total_scheduled_count |->
         round(weighted(m, b, "total_scheduled_count", m.total_users,
                        b.total_users), Digits6),
     SAIDI_F |-> round(saidi_f, Digits6),
     SAIDI_S |-> round(saidi_s, Digits6),
     SAIDI_total |-> round(FAdd(saidi_f, saidi_s), Digits6),
     SAIFI_F |-> round(saifi_f, Digits6),
     SAIFI_S |-> round(saifi_s, Digits6),
     SAIFI_total |-> round(FAdd(saifi_f, saifi_s), Digits6),
     ASAI |-> round(asai_formula(FAdd(saidi_f, saidi_s), <<U, 1>>,
                                 consts.Annual_Power_Hours), Digits6)]

feeder_record(m, b, U, saidi_f, saidi_s, saifi_f, saifi_s, consts) ==
    [total_length |-> round(FAdd(m.total_length, b.total_length), LengthDigits),
     total_users |-> U,
     total_fault_count |->
         round(FAdd(m.total_fault_count, b.total_fault_count), Digits6),
     total_scheduled_count |->
         round(FAdd(m.total_scheduled_count, b.total_scheduled_count), Digits6),
     SAIDI_F |-> round(saidi_f, Digits6),
     SAIDI_S |-> round(saidi_s, Digits6),
     SAIDI_total |-> round(FAdd(saidi_f, saidi_s), Digits6),
     SAIFI_F |-> round(saifi_f, Digits6),
     SAIFI_S |-> round(saifi_s, Digits6),
     SAIFI_total |-> round(FAdd(saifi_f, saifi_s), Digits6),
     ASAI |-> round(asai_formula(FAdd(saidi_f, saidi_s), <<U, 1>>,
                                 consts.Annual_Power_Hours), Digits6)]

\* variant of feeder_summary: the feeder ASAI is the mean of the group ASAIs
feeder_summary_mean_asai(m, b, Um, Ub, consts) ==
    [feeder_record(m, b, Um + Ub,
                   weighted(m, b, "SAIDI_F", Um, Ub),
                   weighted(m, b, "SAIDI_S", Um, Ub),
                   weighted(m, b, "SAIFI_F", Um, Ub),
                   weighted(m, b, "SAIFI_S", Um, Ub), consts)
        EXCEPT !.ASAI = round(FDiv(FAdd(m.ASAI, b.ASAI), <<2, 1>>), Digits6)]

feeder_summary(m, b, Um, Ub, consts) ==
    feeder_record(m, b, Um + Ub,
                  weighted(m, b, "SAIDI_F", Um, Ub),
                  weighted(m, b, "SAIDI_S", Um, Ub),
                  weighted(m, b, "SAIFI_F", Um, Ub),
                  weighted(m, b, "SAIFI_S", Um, Ub), consts)

\* ------------------------------------------------------------------------
\* Wide arithmetic.  The default constants carry eight decimals, and their
\* products leave 32 bits, so the run under the default constants computes
\* with non-negative rationals <<n, d>> whose n and d are naturals of any
\* size, written as sequences of limbs in base 10000, most significant first.
\* An operand is bound to a variable before a loop runs over its limbs, so
\* that it is evaluated once and outside the loop.
\* ------------------------------------------------------------------------

RECURSIVE BDigits(_)
BDigits(k) ==
    IF k < 10000 THEN <<k>> ELSE Append(BDigits(k \div 10000), k % 10000)

RECURSIVE BTrim(_)
BTrim(a) == IF Len(a) > 1 /\ a[1] = 0 THEN BTrim(Tail(a)) ELSE a

BPad(a, L) ==
    [i \in 1..L |-> IF i <= L - Len(a) THEN 0 ELSE a[i - (L - Len(a))]]

BMax(x, y) == IF x >= y THEN x ELSE y

RECURSIVE BCmpAt(_, _, _)
BCmpAt(a, b, i) ==
    IF i > Len(a) THEN 0
    ELSE IF a[i] < b[i] THEN -1
    ELSE IF a[i] > b[i] THEN 1
    ELSE BCmpAt(a, b, i + 1)

\* -1, 0 or 1 as a < b, a = b or a > b
BCmp(a, b) ==
    IF Len(a) < Len(b) THEN -1
    ELSE IF Len(a) > Len(b) THEN 1
    ELSE BCmpAt(a, b, 1)

\* c is the carry into limb i
RECURSIVE BAddFrom(_, _, _, _)
BAddFrom(a, b, i, c) ==
    IF i = 0 THEN <<c>>
    ELSE Append(BAddFrom(a, b, i - 1, (a[i] + b[i] + c) \div 10000),
                (a[i] + b[i] + c) % 10000)

BAddPadded(a, b, L) == BTrim(BAddFrom(BPad(a, L), BPad(b, L), L, 0))

BAdd(a, b) ==
    CHOOSE r \in {BAddPadded(av, bv, BMax(Len(av), Len(bv))) : av \in {a}, bv \in {b}} : TRUE

\* a - b for a >= b; c is the borrow from limb i
RECURSIVE BSubFrom(_, _, _, _)
BSubFrom(a, b, i, c) ==
    IF i = 0 THEN <<0>>
    ELSE Append(BSubFrom(a, b, i - 1, IF a[i] - b[i] - c < 0 THEN 1 ELSE 0),
                (a[i] - b[i] - c + 10000) % 10000)

BSub(a, b) ==
    CHOOSE r \in {BTrim(BSubFrom(av, BPad(bv, Len(av)), Len(av), 0)) : av \in {a}, bv \in {b}} : TRUE

RECURSIVE BMulSmallFrom(_, _, _, _)
BMulSmallFrom(a, k, i, c) ==
    IF i = 0 THEN <<c>>
    ELSE Append(BMulSmallFrom(a, k, i - 1, (a[i] * k + c) \div 10000),
                (a[i] * k + c) % 10000)

\* a * k for one limb k
BMulSmall(a, k) ==
    CHOOSE r \in {BTrim(BMulSmallFrom(av, kv, Len(av), 0)) : av \in {a}, kv \in {k}} : TRUE

RECURSIVE BMulUpto(_, _, _)
BMulUpto(a, b, j) ==
    IF j = 0 THEN <<0>>
    ELSE BAdd(BTrim(Append(BMulUpto(a, b, j - 1), 0)), BMulSmall(a, b[j]))

BMul(a, b) ==
    CHOOSE r \in {BMulUpto(av, bv, Len(bv)) : av \in {a}, bv \in {b}} : TRUE

\* the largest m in 0..9 with (k + m * step) * d <= cur
BFitDigit(cur, d, k, step) ==
    CHOOSE m \in 0..9 :
        /\ BCmp(BMulSmall(d, k + m * step), cur) <= 0
        /\ m = 9 \/ BCmp(BMulSmall(d, k + (m + 1) * step), cur) > 0

\* the largest limb q with q * d <= cur, for cur < 10000 * d, found one
\* decimal digit after the other
RECURSIVE BFitFrom(_, _, _, _)
BFitFrom(cur, d, k, step) ==
    IF step = 0 THEN k
    ELSE BFitFrom(cur, d, k + BFitDigit(cur, d, k, step) * step, step \div 10)

BFit(cur, d) == BFitFrom(cur, d, 0, 1000)

BDivPut(q, cur, d, k) == <<Append(q, k), BSub(cur, BMulSmall(d, k))>>

BDivCur(q, cur, d) ==
    CHOOSE r \in {BDivPut(q, cur, d, k) : k \in {BFit(cur, d)}} : TRUE

BDivStep(st, limb, d) ==
    CHOOSE r \in {BDivCur(sv[1], BTrim(Append(sv[2], limb)), d) : sv \in {st}} : TRUE

\* long division: <<quotient, remainder>> of the first i limbs of n by d
RECURSIVE BDivFold(_, _, _)
BDivFold(n, d, i) ==
    IF i = 0 THEN <<<<0>>, <<0>>>>
    ELSE BDivStep(BDivFold(n, d, i - 1), n[i], d)

BDivMod(n, d) ==
    CHOOSE r \in {BDivFold(nv, dv, Len(nv)) : nv \in {n}, dv \in {d}} : TRUE

\* 10^k
BPow10(k) ==
    [i \in 1..(k \div 4 + 1) |->
        IF i > 1 THEN 0
        ELSE IF k % 4 = 0 THEN 1
        ELSE IF k % 4 = 1 THEN 10
        ELSE IF k % 4 = 2 THEN 100
        ELSE 1000]

BIsZero(a) == a = <<0>>

BIsOdd(a) == a[Len(a)] % 2 = 1

BEndsInZero(a) == a[Len(a)] % 10 = 0

\* a / 10 for a multiple of ten
BTenth(a) == BTrim(BDivMod(a, <<10>>)[1])

\* common factors of ten taken out of <<n, d>>
RECURSIVE WCancel(_, _)
WCancel(n, d) ==
    IF BIsZero(n) THEN <<<<0>>, <<1>>>>
    ELSE IF BEndsInZero(n) /\ BEndsInZero(d)
    THEN CHOOSE r \in {WCancel(nv, dv) : nv \in {BTenth(n)}, dv \in {BTenth(d)}} : TRUE
    ELSE <<n, d>>

WNorm(x) == CHOOSE r \in {WCancel(xv[1], xv[2]) : xv \in {x}} : TRUE

\* a non-negative finite value <<n, d>> of the 32-bit arithmetic, made wide
Wide(x) == <<BDigits(x[1]), BDigits(x[2])>>

WZero == <<<<0>>, <<1>>>>
WOne == <<<<1>>, <<1>>>>
WHundred == <<<<100>>, <<1>>>>

WAddTo(x, y) ==
    WNorm(<<BAdd(BMul(x[1], y[2]), BMul(y[1], x[2])), BMul(x[2], y[2])>>)

WAdd(x, y) == CHOOSE r \in {WAddTo(xv, yv) : xv \in {x}, yv \in {y}} : TRUE

WSubFrom(x, y) ==
    WNorm(<<BSub(BMul(x[1], y[2]), BMul(y[1], x[2])), BMul(x[2], y[2])>>)

\* x - y for x >= y
WSub(x, y) == CHOOSE r \in {WSubFrom(xv, yv) : xv \in {x}, yv \in {y}} : TRUE

WMul(x, y) ==
    CHOOSE r \in {WNorm(<<BMul(xv[1], yv[1]), BMul(xv[2], yv[2])>>) : xv \in {x}, yv \in {y}} : TRUE

\* x / y for y > 0
WDiv(x, y) ==
    CHOOSE r \in {WNorm(<<BMul(xv[1], yv[2]), BMul(xv[2], yv[1])>>) : xv \in {x}, yv \in {y}} : TRUE

WGtZero(x) == ~BIsZero(x[1])

WEq(x, y) == BMul(x[1], y[2]) = BMul(y[1], x[2])

WLe(x, y) == BCmp(BMul(x[1], y[2]), BMul(y[1], x[2])) <= 0

\* the quotient q moved to the nearest integer, ties to the even one
WNearestOf(q, r, d) ==
    IF BCmp(BMulSmall(r, 2), d) > 0 \/ (BCmp(BMulSmall(r, 2), d) = 0 /\ BIsOdd(q))
    THEN BAdd(BTrim(q), <<1>>)
    ELSE BTrim(q)

WNearest(st, d) == CHOOSE r \in {WNearestOf(sv[1], sv[2], d) : sv \in {st}} : TRUE

wide_round_to(x, digits) ==
    WNorm(<<WNearest(BDivMod(BMul(x[1], BPow10(digits)), x[2]), x[2]),
            BPow10(digits)>>)

\* round(x, digits) of a wide value
wide_round(x, digits) ==
    CHOOSE r \in {wide_round_to(xv, digits) : xv \in {x}} : TRUE

\* ------------------------------------------------------------------------
\* The framework's steps 5 to 8 in wide arithmetic
\* ------------------------------------------------------------------------

\* CONSTANTS of reliability_calc_jingshuixian.py, the default constants
DefaultConstants ==
    [Cable_Fault_Rate |-> <<9282879, 100000000>>,
     Overhead_Fault_Rate |-> <<15337829, 100000000>>,
     Auto_Isolation_Time |-> <<557, 1000>>,
     Manual_Isolation_Time |-> <<2, 1>>,
     Cable_Repair_Time |-> <<3073, 1000>>,
     Scheduled_Outage_Rate |-> <<221, 10000>>,
     Scheduled_Total_Time |-> <<219, 40>>,
     Annual_Power_Hours |-> <<8760, 1>>]

\* variant of wide_laying_result: the two fault rates change places
wide_laying_result_swapped(cable_w, overhead_w, total, consts) ==
    [cableWeight |-> WDiv(cable_w, total),
     overheadWeight |-> WDiv(overhead_w, total),
     faultRate |-> WDiv(WAdd(WMul(cable_w, Wide(consts.Overhead_Fault_Rate)),
                             WMul(overhead_w, Wide(consts.Cable_Fault_Rate))),
                        total)]

\* rate = (cable_w * Cable_Fault_Rate + overhead_w * Overhead_Fault_Rate) / total
\* return cable_w / total, overhead_w / total, rate
wide_laying_result(cable_w, overhead_w, total, consts) ==
    [cableWeight |-> WDiv(cable_w, total),
     overheadWeight |-> WDiv(overhead_w, total),
     faultRate |-> WDiv(WAdd(WMul(cable_w, Wide(consts.Cable_Fault_Rate)),
                             WMul(overhead_w, Wide(consts.Overhead_Fault_Rate))),
                        total)]

\* total = cable_w + overhead_w; if total <= 0: cable_w, overhead_w = 0.0, 1.0
wide_laying_total(acc, total, consts) ==
    IF LeZero(total) THEN wide_laying_result(WZero, WOne, WOne, consts)
    ELSE wide_laying_result(Wide(acc[1]), Wide(acc[2]), Wide(total), consts)

\* parse_laying_weights_and_fault_rate on a descriptor whose buckets are
\* finite and not negative
wide_laying(line_model, consts) ==
    wide_laying_total(laying_buckets(line_model),
                      FAdd(laying_buckets(line_model)[1],
                           laying_buckets(line_model)[2]), consts)

wide_laying_columns(r, p, iso) ==
    [id |-> r.id, auto |-> r.auto, length |-> r.length, users |-> r.users,
     desc |-> r.desc, cableWeight |-> p.cableWeight,
     overheadWeight |-> p.overheadWeight, faultRate |-> p.faultRate,
     isolation |-> iso]

\* step 5 of run() on a cleaned frame: the lengths, the user counts and the
\* isolation times stay as they are, the parser's columns are wide
wide_apply_laying(df, consts) ==
    [i \in 1..Len(df) |->
        wide_laying_columns(df[i], wide_laying(df[i].desc, consts),
                            get_isolation_time(df[i].auto, consts))]

\* np.where(cond, x, 0)
wide_where(cond, x) == IF cond THEN x ELSE WZero

\* (count * hours * users) / line_total_users
wide_saidi_share(valid, count, hours, users, U) ==
    wide_where(valid /\ U > 0, WDiv(WMul(WMul(count, hours), users), Wide(<<U, 1>>)))

\* (count * users) / line_total_users
wide_saifi_share(valid, count, users, U) ==
    wide_where(valid /\ U > 0, WDiv(WMul(count, users), Wide(<<U, 1>>)))

wide_indicator_columns(r, valid, faultCount, faultDuration, schedCount, saidiF, saifiF, saidiS, saifiS) ==
    [id |-> r.id, auto |-> r.auto, length |-> r.length, users |-> r.users,
     desc |-> r.desc, cableWeight |-> r.cableWeight,
     overheadWeight |-> r.overheadWeight, faultRate |-> r.faultRate,
     isolation |-> r.isolation, valid |-> valid,
     faultCount |-> faultCount, faultDuration |-> faultDuration,
     scheduledCount |-> schedCount,
     SAIDI_F |-> saidiF, SAIFI_F |-> saifiF,
     SAIDI_S |-> saidiS, SAIFI_S |-> saifiS,
     SAIDI_total |-> WAdd(saidiF, saidiS),
     SAIFI_total |-> WAdd(saifiF, saifiS)]

wide_segment_shares(r, valid, faultCount, faultDuration, schedCount, U, consts) ==
    wide_indicator_columns(r, valid, faultCount, faultDuration, schedCount,
        wide_saidi_share(valid, faultCount, faultDuration, Wide(r.users), U),
        wide_saifi_share(valid, faultCount, Wide(r.users), U),
        wide_saidi_share(valid, schedCount, Wide(consts.Scheduled_Total_Time),
                         Wide(r.users), U),
        wide_saifi_share(valid, schedCount, Wide(r.users), U))

wide_segment_counts(r, valid, U, consts) ==
    wide_segment_shares(r, valid,
        wide_where(valid, WMul(Wide(r.length), r.faultRate)),
        WAdd(Wide(r.isolation), Wide(consts.Cable_Repair_Time)),
        wide_where(valid, WMul(Wide(r.length), Wide(consts.Scheduled_Outage_Rate))),
        U, consts)

\* calculate_segment_indicators
wide_segment_indicators(df, line_total_users, consts) ==
    [i \in 1..Len(df) |->
        wide_segment_counts(df[i], GtZero(df[i].users), line_total_users, consts)]

RECURSIVE wide_column_sum(_, _, _)
wide_column_sum(df, col, i) ==
    IF i = 0 THEN WZero ELSE WAdd(wide_column_sum(df, col, i - 1), df[i][col])

wide_sum(df, col) == wide_column_sum(df, col, Len(df))

\* ((theory_hours - outage_hours) / theory_hours) * 100, for outage hours
\* that do not exceed the theory hours
wide_asai_formula(saidi_total, users, annual_hours) ==
    WMul(WDiv(WSub(WMul(users, annual_hours), WMul(saidi_total, users)),
              WMul(users, annual_hours)),
         WHundred)

\* if line_total_users > 0: asai = formula, else: asai = 100.0
wide_calculate_asai(saidi_total, line_total_users, consts) ==
    IF line_total_users > 0
    THEN wide_asai_formula(saidi_total, Wide(<<line_total_users, 1>>),
                           Wide(consts.Annual_Power_Hours))
    ELSE WHundred

wide_summary_record(total_length, U, faults, scheduled, saidi_f, saidi_s, saifi_f, saifi_s, consts) ==
    [total_length |-> wide_round(total_length, LengthDigits),
     total_users |-> U,
     total_fault_count |-> wide_round(faults, Digits6),
     total_scheduled_count |-> wide_round(scheduled, Digits6),
     SAIDI_F |-> wide_round(saidi_f, Digits6),
     SAIDI_S |-> wide_round(saidi_s, Digits6),
     SAIDI_total |-> wide_round(WAdd(saidi_f, saidi_s), Digits6),
     SAIFI_F |-> wide_round(saifi_f, Digits6),
     SAIFI_S |-> wide_round(saifi_s, Digits6),
     SAIFI_total |-> wide_round(WAdd(saifi_f, saifi_s), Digits6),
     ASAI |-> wide_round(wide_calculate_asai(WAdd(saidi_f, saidi_s), U, consts),
                         Digits6)]

\* calculate_summary
wide_summary(df, line_total_users, consts) ==
    wide_summary_record(Wide(sum(df, "length")), line_total_users,
                        wide_sum(df, "faultCount"), wide_sum(df, "scheduledCount"),
                        wide_sum(df, "SAIDI_F"), wide_sum(df, "SAIDI_S"),
                        wide_sum(df, "SAIFI_F"), wide_sum(df, "SAIFI_S"), consts)

\* ------------------------------------------------------------------------
\* reliability_calculation.py.  Its param_config is modelled by a constants
\* table too: Cable_Fault_Rate is the rate of "电缆" and Overhead_Fault_Rate
\* stands for the rate of "混合".
\* ------------------------------------------------------------------------

\* round(asai, 4)
AsaiDigits == 4

YJV == <<"Y", "J", "V">>
YJLV == <<"Y", "J", "L", "V">>
YJV22 == <<"Y", "J", "V", "2", "2">>

\* any(keyword in line_model.upper() for keyword in ["YJV", "YJLV", "YJV22"])
extract_laying_method(line_model) ==
    IF \E keyword \in {YJV, YJLV, YJV22} : HasSub(upper(line_model), keyword)
    THEN "cable" ELSE "mixed"

\* df["敷设方式"].map(param_config["fault_rate"])
fault_rate_of(laying, consts) ==
    IF laying = "cable" THEN consts.Cable_Fault_Rate
    ELSE consts.Overhead_Fault_Rate

\* the rows the validation loop would keep: it binds them to its loop
\* variable only, main_df and branch_df keep every row
validated(df) == dropna(non_negative(coerce_columns(df)))

\* Series.sum(): NaN entries are skipped
RECURSIVE nansum_upto(_, _, _)
nansum_upto(df, col, i) ==
    IF i = 0 THEN Zero
    ELSE IF IsNaN(df[i][col]) THEN nansum_upto(df, col, i - 1)
    ELSE FAdd(nansum_upto(df, col, i - 1), df[i][col])

nansum(df, col) == nansum_upto(df, col, Len(df))

preprocess_row(r, consts) ==
    [id |-> r.id, auto |-> automation_state(r.auto), length |-> r.length,
     users |-> r.users, laying |-> extract_laying_method(r.desc),
     faultRate |-> fault_rate_of(extract_laying_method(r.desc), consts),
     isolation |-> preprocess_isolation(r.auto, consts),
     valid |-> GtZero(r.users)]

\* preprocess_data: the frame with its columns added
preprocess_data(df, consts) ==
    [i \in 1..Len(df) |-> preprocess_row(df[i], consts)]

\* np.where(valid & (line_total_users > 0), x / line_total_users, 0)
per_user(valid, x, U) == where(valid /\ GtZero(U), FDiv(x, U))

\* the six columns that .round(6) is applied to
rounded_columns(r, faultCount, faultDuration, schedCount, saidiF, saifiF, saidiS, saifiS) ==
    [id |-> r.id, auto |-> r.auto, length |-> r.length, users |-> r.users,
     laying |-> r.laying, faultRate |-> r.faultRate,
     isolation |-> r.isolation, valid |-> r.valid,
     faultCount |-> faultCount, faultDuration |-> faultDuration,
     scheduledCount |-> schedCount,
     SAIDI_F |-> round(saidiF, Digits6), SAIFI_F |-> round(saifiF, Digits6),
     SAIDI_S |-> round(saidiS, Digits6), SAIFI_S |-> round(saifiS, Digits6),
     SAIDI_total |-> round(FAdd(saidiF, saidiS), Digits6),
     SAIFI_total |-> round(FAdd(saifiF, saifiS), Digits6)]

row_shares(r, faultCount, faultDuration, schedCount, U, consts) ==
    rounded_columns(r, faultCount, faultDuration, schedCount,
        per_user(r.valid, FMul(FMul(faultCount, faultDuration), r.users), U),
        per_user(r.valid, FMul(faultCount, r.users), U),
        per_user(r.valid,
                 FMul(FMul(schedCount, consts.Scheduled_Total_Time), r.users), U),
        per_user(r.valid, FMul(schedCount, r.users), U))

row_counts(r, U, consts) ==
    row_shares(r,
        where(r.valid, FMul(r.length, r.faultRate)),
        FAdd(r.isolation, consts.Cable_Repair_Time),
        where(r.valid, FMul(r.length, consts.Scheduled_Outage_Rate)),
        U, consts)

\* calculate_segment_indicators of reliability_calculation.py
segment_indicators_rounded(df, line_total_users, consts) ==
    [i \in 1..Len(df) |-> row_counts(df[i], line_total_users, consts)]

\* asai = round(formula, 4) if line_total_users > 0 else 100.0
asai_rounded(total_saidi, line_total_users, consts) ==
    IF GtZero(line_total_users)
    THEN round(asai_formula(total_saidi, line_total_users,
                            consts.Annual_Power_Hours), AsaiDigits)
    ELSE Hundred

summary_indicators(total_length, U, faults, scheduled, saidi_f, saidi_s, saifi_f, saifi_s, consts) ==
    [total_length |-> round(total_length, LengthDigits),
     total_users |-> U,
     total_fault_count |-> round(faults, Digits6),
     total_scheduled_count |-> round(scheduled, Digits6),
     SAIDI_F |-> round(saidi_f, Digits6),
     SAIDI_S |-> round(saidi_s, Digits6),
     SAIDI_total |-> round(FAdd(saidi_f, saidi_s), Digits6),
     SAIFI_F |-> round(saifi_f, Digits6),
     SAIFI_S |-> round(saifi_s, Digits6),
     SAIFI_total |-> round(FAdd(saifi_f, saifi_s), Digits6),
     ASAI |-> asai_rounded(FAdd(saidi_f, saidi_s), U, consts)]

calculate_summary_indicators(df, line_total_users, consts) ==
    summary_indicators(nansum(df, "length"), line_total_users,
                       nansum(df, "faultCount"), nansum(df, "scheduledCount"),
                       nansum(df, "SAIDI_F"), nansum(df, "SAIDI_S"),
                       nansum(df, "SAIFI_F"), nansum(df, "SAIFI_S"), consts)

\* (main[col] * main_total_users + branch[col] * branch_total_users)
\*     / total_users_all
weighted_reported(m, b, col, Um, Ub) ==
    FDiv(FAdd(FMul(m[col], Um), FMul(b[col], Ub)), FAdd(Um, Ub))

\* the 全线路 record of reliability_calculation.py
all_summary_reported(m, b, Um, Ub, consts) ==
    [total_length |-> round(FAdd(m.total_length, b.total_length), LengthDigits),
     total_users |-> FAdd(Um, Ub),
     total_fault_count |->
         round(FAdd(m.total_fault_count, b.total_fault_count), Digits6),
     total_scheduled_count |->
         round(FAdd(m.total_scheduled_count, b.total_scheduled_count), Digits6),
     SAIDI_F |-> round(weighted_reported(m, b, "SAIDI_F", Um, Ub), Digits6),
     SAIDI_S |-> round(weighted_reported(m, b, "SAIDI_S", Um, Ub), Digits6),
     SAIDI_total |->
         round(weighted_reported(m, b, "SAIDI_total", Um, Ub), Digits6),
     SAIFI_F |-> round(weighted_reported(m, b, "SAIFI_F", Um, Ub), Digits6),
     SAIFI_S |-> round(weighted_reported(m, b, "SAIFI_S", Um, Ub), Digits6),
     SAIFI_total |->
         round(weighted_reported(m, b, "SAIFI_total", Um, Ub), Digits6),
     ASAI |->
         round(FMul(FDiv(FSub(FMul(FAdd(Um, Ub), consts.Annual_Power_Hours),
                              FAdd(FMul(m.SAIDI_total, Um),
                                   FMul(b.SAIDI_total, Ub))),
                         FMul(FAdd(Um, Ub), consts.Annual_Power_Hours)),
                    Hundred), AsaiDigits)]

\* ------------------------------------------------------------------------
\* Descriptor inputs: token lines with the name and the weight each is
\* expected to contribute (NoWeight: no colon, or no parseable percentage)
\* ------------------------------------------------------------------------

NoWeight == ValueError

TokJK50 ==
    [text |-> <<"P", "D", "_", "J", "K", "L", "Y", "J", "-", "3", "0",
               "0", ":", " ", "5", "0", ".", "0", "0", "%">>,
     name |-> <<"P", "D", "_", "J", "K", "L", "Y", "J", "-", "3", "0",
               "0">>,
     w |-> <<1, 2>>]

TokVLY50 ==
    [text |-> <<"P", "D", "_", "V", "L", "Y", "-", "8", ".", "7", "/",
               "1", "0", "-", "3", "x", "3", "0", "0", ":", " ", "5",
               "0", ".", "0", "0", "%">>,
     name |-> <<"P", "D", "_", "V", "L", "Y", "-", "8", ".", "7", "/",
               "1", "0", "-", "3", "x", "3", "0", "0">>,
     w |-> <<1, 2>>]

TokJK7143 ==
    [text |-> <<"P", "D", "_", "J", "K", "L", "Y", "J", ":", " ", "7",
               "1", ".", "4", "3", "%">>,
     name |-> <<"P", "D", "_", "J", "K", "L", "Y", "J">>,
     w |-> <<7143, 10000>>]

TokNone1429 ==
    [text |-> <<"N", "o", "n", "e", ":", " ", "1", "4", ".", "2", "9",
               "%">>,
     name |-> <<"N", "o", "n", "e">>,
     w |-> <<1429, 10000>>]

TokVLY1429 ==
    [text |-> <<"P", "D", "_", "V", "L", "Y", ":", " ", "1", "4", ".",
               "2", "9", "%">>,
     name |-> <<"P", "D", "_", "V", "L", "Y">>,
     w |-> <<1429, 10000>>]

TokVLY100 ==
    [text |-> <<"P", "D", "_", "V", "L", "Y", "-", "3", "0", "0", ":",
               " ", "1", "0", "0", "%">>,
     name |-> <<"P", "D", "_", "V", "L", "Y", "-", "3", "0", "0">>,
     w |-> <<1, 1>>]

TokNoneLow ==
    [text |-> <<" ", "n", "o", "n", "e", " ", ":", " ", "3", "0", "%">>,
     name |-> <<"n", "o", "n", "e">>,
     w |-> <<3, 10>>]

TokNoName ==
    [text |-> <<":", " ", "2", "0", "%">>,
     name |-> <<>>,
     w |-> <<1, 5>>]

TokJkLow ==
    [text |-> <<"x", "j", "k", "y", ":", "2", "5", " ", "%">>,
     name |-> <<"x", "j", "k", "y">>,
     w |-> <<1, 4>>]

TokNoColon ==
    [text |-> <<"P", "D", "_", "V", "L", "Y", " ", "4", "0", "%">>,
     name |-> <<>>,
     w |-> NoWeight]

TokBadPct ==
    [text |-> <<"P", "D", "_", "V", "L", "Y", ":", " ", "a", "b", "c",
               "%">>,
     name |-> <<"P", "D", "_", "V", "L", "Y">>,
     w |-> NoWeight]

TokNeg ==
    [text |-> <<"P", "D", "_", "V", "L", "Y", ":", " ", "-", "5", "0",
               "%">>,
     name |-> <<"P", "D", "_", "V", "L", "Y">>,
     w |-> <<-1, 2>>]

TokOver ==
    [text |-> <<"P", "D", "_", "J", "K", "L", "Y", "J", ":", " ", "1",
               "5", "0", "%">>,
     name |-> <<"P", "D", "_", "J", "K", "L", "Y", "J">>,
     w |-> <<3, 2>>]

TokNan ==
    [text |-> <<"P", "D", "_", "V", "L", "Y", ":", " ", "n", "a", "n",
               "%">>,
     name |-> <<"P", "D", "_", "V", "L", "Y">>,
     w |-> NaN]

TokInf ==
    [text |-> <<"P", "D", "_", "J", "K", "L", "Y", "J", ":", " ", "i",
               "n", "f", "%">>,
     name |-> <<"P", "D", "_", "J", "K", "L", "Y", "J">>,
     w |-> PosInf]

TokColonName ==
    [text |-> <<"A", ":", "J", "K", ":", " ", "4", "0", "%">>,
     name |-> <<"A", ":", "J", "K">>,
     w |-> <<2, 5>>]

TokNonesuch ==
    [text |-> <<"N", "O", "N", "E", "S", "U", "C", "H", ":", " ", "1",
               "0", "%">>,
     name |-> <<"N", "O", "N", "E", "S", "U", "C", "H">>,
     w |-> <<1, 10>>]

TokBlank ==
    [text |-> <<" ", " ">>,
     name |-> <<>>,
     w |-> NoWeight]

TokenLines ==
    {TokJK50, TokVLY50, TokJK7143, TokNone1429, TokVLY1429, TokVLY100,
     TokNoneLow, TokNoName, TokJkLow, TokNoColon, TokBadPct, TokNeg, TokOver,
     TokNan, TokInf, TokColonName, TokNonesuch, TokBlank}

\* the longest descriptor enumerated, in token lines
MaxTokens == 2

SeqsUpTo(S, n) == UNION {[1..k -> S] : k \in 0..n}

\* the three-token example of the docstring, and the same tokens reordered
Scenarios ==
    {<<TokJK7143, TokNone1429, TokVLY1429>>,
     <<TokNone1429, TokVLY1429, TokJK7143>>,
     <<TokNeg, TokOver, TokNone1429>>}

LF == <<"\n">>
CRLF == <<"\r", "\n">>

RECURSIVE Join(_, _)
Join(lines, sep) ==
    IF lines = <<>> THEN <<>>
    ELSE IF Len(lines) = 1 THEN lines[1].text
    ELSE lines[1].text \o sep \o Join(Tail(lines), sep)

\* ------------------------------------------------------------------------
\* State
\* ------------------------------------------------------------------------

VARIABLES
    pc,                 \* position in the run
    constants,          \* the constants table of the run
    line_model,         \* the descriptor handed to the parser
    tokens,             \* the token lines line_model was written from
    buckets,            \* the parser's locals <<cable_w, overhead_w>>
    parsed,             \* the parser's return value
    df_main_mapped,     \* the mapped rows of the main sheet
    df_branch_mapped,   \* the mapped rows of the branch sheet
    df_main_clean,      \* the main rows after cleaning (and, later, parsing)
    df_branch_clean,    \* the branch rows after cleaning (and parsing)
    main_total_users,
    branch_total_users,
    all_total_users,
    df_main_result,     \* the main rows with their indicators
    df_branch_result,   \* the branch rows with their indicators
    main_summary,
    branch_summary,
    all_summary,
    auto_status,        \* the automation flag handed to the isolation rules
    isolation_time,     \* the isolation time each script resolves it to
    run_no,             \* 1 in the first run() over the inputs, 2 in the second
    given,              \* the constants and the mapped rows as first handed in
    first_output        \* what the first run() produced

parse_vars == <<line_model, tokens, buckets, parsed>>
input_vars == <<constants, df_main_mapped, df_branch_mapped>>
clean_vars == <<df_main_clean, df_branch_clean>>
users_vars == <<main_total_users, branch_total_users, all_total_users>>
result_vars == <<df_main_result, df_branch_result>>
group_vars == <<main_summary, branch_summary>>
flag_vars == <<auto_status, isolation_time>>
rerun_vars == <<run_no, given, first_output>>

vars == <<pc, parse_vars, input_vars, clean_vars, users_vars, result_vars,
          group_vars, all_summary, flag_vars, rerun_vars>>

Idle == <<>>

NoRun ==
    /\ df_main_mapped = Idle /\ df_branch_mapped = Idle
    /\ df_main_clean = Idle /\ df_branch_clean = Idle
    /\ main_total_users = 0 /\ branch_total_users = 0 /\ all_total_users = 0
    /\ df_main_result = Idle /\ df_branch_result = Idle
    /\ main_summary = Idle /\ branch_summary = Idle /\ all_summary = Idle

NoFlag ==
    /\ auto_status = Idle /\ isolation_time = Idle

NoRerun ==
    /\ run_no = 1 /\ given = Idle /\ first_output = Idle

\* ------------------------------------------------------------------------
\* SpecParse: the parser applied to one descriptor
\* ------------------------------------------------------------------------

InitParse ==
    /\ pc = "parse"
    /\ constants \in ConstantTables
    /\ \E lines \in SeqsUpTo(TokenLines, MaxTokens) \cup Scenarios :
       \E sep \in (IF lines \in Scenarios THEN {LF, CRLF} ELSE {LF}) :
          /\ tokens = lines
          /\ line_model = Join(lines, sep)
    /\ buckets = Idle
    /\ parsed = Idle
    /\ NoRun
    /\ NoFlag
    /\ NoRerun

ParseLaying ==
    /\ pc = "parse"
    /\ buckets' = laying_buckets(line_model)
    /\ parsed' = parse_laying_weights_and_fault_rate(line_model, constants)
    /\ pc' = "parsed"
    /\ UNCHANGED <<rerun_vars, flag_vars, line_model, tokens, input_vars, clean_vars, users_vars,
                   result_vars, group_vars, all_summary>>

NextParse == ParseLaying

SpecParse == InitParse /\ [][NextParse]_vars

\* ------------------------------------------------------------------------
\* Spec: one run() of the framework, steps 4 to 9
\* ------------------------------------------------------------------------

DescCable == TokVLY100.text
DescMixed == Join(<<TokJK50, TokVLY50>>, LF)
DescOverhead == TokJK7143.text
DescNone == TokNone1429.text

RowCable ==
    [auto |-> Bool(TRUE), length |-> Num(1, 1), users |-> Num(1, 1),
     desc |-> DescCable]
RowMixed ==
    [auto |-> Bool(FALSE), length |-> Num(2, 1), users |-> Num(2, 1),
     desc |-> DescMixed]
RowNoUsers ==
    [auto |-> BoolText(TRUE_TEXT), length |-> Num(1, 1), users |-> Num(0, 1),
     desc |-> DescOverhead]
RowBadLength ==
    [auto |-> Bool(TRUE), length |-> Text(<<"a", "b", "c">>),
     users |-> Num(1, 1), desc |-> DescCable]
RowHalfUser ==
    [auto |-> BoolText(<<"y", "e", "s">>), length |-> Text(<<"0", ".", "5">>),
     users |-> Text(<<"0", ".", "5">>), desc |-> DescNone]

RowTemplates == {RowCable, RowMixed, RowNoUsers, RowBadLength, RowHalfUser}

\* the most rows enumerated in the main and in the branch sheet
MaxMainRows == 2
MaxBranchRows == 1

\* the rows of a sheet, each with its position as its segment id
Sheet(rows) ==
    [i \in 1..Len(rows) |->
        [id |-> i, auto |-> rows[i].auto, length |-> rows[i].length,
         users |-> rows[i].users, desc |-> rows[i].desc]]

NoParse ==
    /\ line_model = Idle /\ tokens = Idle /\ buckets = Idle /\ parsed = Idle

InitRun ==
    /\ pc = "clean"
    /\ constants \in ConstantTables
    /\ \E m \in SeqsUpTo(RowTemplates, MaxMainRows) : df_main_mapped = Sheet(m)
    /\ \E b \in SeqsUpTo(RowTemplates, MaxBranchRows) : df_branch_mapped = Sheet(b)
    /\ NoParse
    /\ NoFlag
    /\ run_no = 1
    /\ given = [constants |-> constants, main |-> df_main_mapped,
                branch |-> df_branch_mapped]
    /\ first_output = Idle
    /\ df_main_clean = Idle /\ df_branch_clean = Idle
    /\ main_total_users = 0 /\ branch_total_users = 0 /\ all_total_users = 0
    /\ df_main_result = Idle /\ df_branch_result = Idle
    /\ main_summary = Idle /\ branch_summary = Idle /\ all_summary = Idle

\* variant of stage_after: the group summaries are computed before the segment
\* indicators
stage_after_summary_first(stage) ==
    CASE stage = "clean" -> "laying"
      [] stage = "laying" -> "users"
      [] stage = "users" -> "summary"
      [] stage = "summary" -> "segments"
      [] stage = "segments" -> "combine"
      [] stage = "combine" -> "done"

\* the step that run() goes on to: its steps 4 to 9 follow one another in the
\* order they are written in
stage_after(stage) ==
    CASE stage = "clean" -> "laying"
      [] stage = "laying" -> "users"
      [] stage = "users" -> "segments"
      [] stage = "segments" -> "summary"
      [] stage = "summary" -> "combine"
      [] stage = "combine" -> "done"

\* variant of caller_frame: clean_data is handed the mapped frame itself, and
\* its two assignments coerce the caller's columns
caller_frame_shared(df) == coerce_columns(df)

\* the mapped frame after clean_data(df.copy(), ...): the assignments of
\* clean_data write to the copy
caller_frame(df) == df

\* step 4: clean_data on a copy of each sheet
CleanData ==
    /\ pc = "clean"
    /\ df_main_clean' = clean_data(df_main_mapped)
    /\ df_branch_clean' = clean_data(df_branch_mapped)
    /\ df_main_mapped' = caller_frame(df_main_mapped)
    /\ df_branch_mapped' = caller_frame(df_branch_mapped)
    /\ pc' = stage_after(pc)
    /\ UNCHANGED <<rerun_vars, flag_vars, parse_vars, constants, users_vars,
                   result_vars, group_vars, all_summary>>

\* step 5: the parser and the isolation time, written into the cleaned frames
ApplyLaying ==
    /\ pc = "laying"
    /\ df_main_clean' = apply_laying(df_main_clean, constants)
    /\ df_branch_clean' = apply_laying(df_branch_clean, constants)
    /\ pc' = stage_after(pc)
    /\ UNCHANGED <<rerun_vars, flag_vars, parse_vars, input_vars, users_vars, result_vars, group_vars,
                   all_summary>>

\* step 6: the total users of each line and of the feeder
TotalUsers ==
    /\ pc = "users"
    /\ main_total_users' = total_users(df_main_clean)
    /\ branch_total_users' = total_users(df_branch_clean)
    /\ all_total_users' = total_users(df_main_clean) + total_users(df_branch_clean)
    /\ pc' = stage_after(pc)
    /\ UNCHANGED <<rerun_vars, flag_vars, parse_vars, input_vars, clean_vars, result_vars, group_vars,
                   all_summary>>

\* step 7: calculate_segment_indicators on both lines
SegmentIndicators ==
    /\ pc = "segments"
    /\ df_main_result' =
           calculate_segment_indicators(df_main_clean, main_total_users, constants)
    /\ df_branch_result' =
           calculate_segment_indicators(df_branch_clean, branch_total_users,
                                        constants)
    /\ pc' = stage_after(pc)
    /\ UNCHANGED <<rerun_vars, flag_vars, parse_vars, input_vars, clean_vars, users_vars, group_vars,
                   all_summary>>

\* step 8: calculate_summary on both lines
Summary ==
    /\ pc = "summary"
    /\ main_summary' = calculate_summary(df_main_result, main_total_users, constants)
    /\ branch_summary' =
           calculate_summary(df_branch_result, branch_total_users, constants)
    /\ pc' = stage_after(pc)
    /\ UNCHANGED <<rerun_vars, flag_vars, parse_vars, input_vars, clean_vars, users_vars, result_vars,
                   all_summary>>

\* step 9: the feeder record.  With all_total_users = 0 the divisions are
\* divisions by zero: numpy.float64 operands give nan (a RuntimeWarning),
\* plain Python numbers raise ZeroDivisionError; which of the two the rounded
\* group sums are depends on the dtype pandas gives the summed columns, so
\* both outcomes are modelled.  The dtype is the same whenever the input is,
\* so a second run over the same input repeats the outcome of the first.
Combine ==
    /\ pc = "combine"
    /\ \/ /\ (run_no = 2 /\ all_total_users = 0) => first_output.pc = "done"
          /\ all_summary' = feeder_summary(main_summary, branch_summary,
                                           main_total_users, branch_total_users,
                                           constants)
          /\ pc' = stage_after(pc)
       \/ /\ all_total_users = 0
          /\ run_no = 2 => first_output.pc = "ZeroDivisionError"
          /\ all_summary' = all_summary
          /\ pc' = "ZeroDivisionError"
    /\ UNCHANGED <<rerun_vars, flag_vars, parse_vars, input_vars, clean_vars, users_vars, result_vars,
                   group_vars>>

Next == CleanData \/ ApplyLaying \/ TotalUsers \/ SegmentIndicators \/ Summary
        \/ Combine

Spec == InitRun /\ [][Next]_vars

\* ------------------------------------------------------------------------
\* SpecRerun: run() called a second time over the same constants and rows
\* ------------------------------------------------------------------------

Finished == {"done", "ZeroDivisionError"}

\* what a run leaves behind: the records of the three sheets it writes, or
\* the exception it ended with
Output ==
    [pc |-> pc, main |-> df_main_result, branch |-> df_branch_result,
     main_summary |-> main_summary, branch_summary |-> branch_summary,
     all_summary |-> all_summary]

\* the second call of run(): every local starts afresh, the constants and the
\* mapped rows are what the first call left of them
Rerun ==
    /\ pc \in Finished
    /\ run_no = 1
    /\ first_output' = Output
    /\ run_no' = 2
    /\ pc' = "clean"
    /\ df_main_clean' = Idle /\ df_branch_clean' = Idle
    /\ main_total_users' = 0 /\ branch_total_users' = 0
    /\ all_total_users' = 0
    /\ df_main_result' = Idle /\ df_branch_result' = Idle
    /\ main_summary' = Idle /\ branch_summary' = Idle /\ all_summary' = Idle
    /\ UNCHANGED <<given, flag_vars, parse_vars, input_vars>>

NextRerun == Next \/ Rerun

SpecRerun == InitRun /\ [][NextRerun]_vars

\* ------------------------------------------------------------------------
\* SpecClean: clean_data applied to sheets of every mix of cells
\* ------------------------------------------------------------------------

CellOne == Num(1, 1)
CellZero == Num(0, 1)
CellNegative == Num(-1, 1)
CellText == Text(<<"2", ".", "5">>)
CellNegText == Text(<<"-", "3">>)
CellWord == Text(<<"a", "b", "c">>)

CleanCells ==
    {CellOne, CellZero, CellNegative, CellText, CellNegText, CellWord, Empty}

CleanRows ==
    {[auto |-> Bool(TRUE), length |-> l, users |-> u, desc |-> DescCable] :
        l \in CleanCells, u \in CleanCells}

\* the most rows enumerated in a sheet that is cleaned
MaxCleanRows == 2

InitClean ==
    /\ pc = "clean"
    /\ constants = TableA
    /\ \E m \in SeqsUpTo(CleanRows, MaxCleanRows) : df_main_mapped = Sheet(m)
    /\ df_branch_mapped = Sheet(<<>>)
    /\ NoParse
    /\ NoFlag
    /\ NoRerun
    /\ df_main_clean = Idle /\ df_branch_clean = Idle
    /\ main_total_users = 0 /\ branch_total_users = 0 /\ all_total_users = 0
    /\ df_main_result = Idle /\ df_branch_result = Idle
    /\ main_summary = Idle /\ branch_summary = Idle /\ all_summary = Idle

NextClean == CleanData

SpecClean == InitClean /\ [][NextClean]_vars

\* ------------------------------------------------------------------------
\* SpecDocument: one run of reliability_calculation.py, validation to the
\* feeder record
\* ------------------------------------------------------------------------

RowYjv ==
    [auto |-> BoolText(TRUE_TEXT), length |-> Num(1, 1), users |-> Num(3, 1),
     desc |-> <<"P", "D", "_", "Y", "J", "V", "2", "2">>]

DocumentRows == {RowCable, RowMixed, RowNoUsers, RowBadLength, RowYjv}

InitDocument ==
    /\ pc = "validate"
    /\ constants \in ConstantTables
    /\ \E m \in SeqsUpTo(DocumentRows, MaxMainRows) : df_main_mapped = Sheet(m)
    /\ \E b \in SeqsUpTo(DocumentRows, MaxBranchRows) : df_branch_mapped = Sheet(b)
    /\ NoParse
    /\ NoFlag
    /\ NoRerun
    /\ df_main_clean = Idle /\ df_branch_clean = Idle
    /\ main_total_users = Zero /\ branch_total_users = Zero
    /\ all_total_users = Zero
    /\ df_main_result = Idle /\ df_branch_result = Idle
    /\ main_summary = Idle /\ branch_summary = Idle /\ all_summary = Idle

\* the validation loop: both frames are coerced in place; the script returns
\* when a frame has no row that would pass the filter
Validate ==
    /\ pc = "validate"
    /\ IF Len(validated(df_main_mapped)) = 0
       THEN /\ df_main_clean' = coerce_columns(df_main_mapped)
            /\ df_branch_clean' = df_branch_clean
            /\ pc' = "no_valid_data"
       ELSE IF Len(validated(df_branch_mapped)) = 0
       THEN /\ df_main_clean' = coerce_columns(df_main_mapped)
            /\ df_branch_clean' = coerce_columns(df_branch_mapped)
            /\ pc' = "no_valid_data"
       ELSE /\ df_main_clean' = coerce_columns(df_main_mapped)
            /\ df_branch_clean' = coerce_columns(df_branch_mapped)
            /\ pc' = "preprocess"
    /\ UNCHANGED <<rerun_vars, flag_vars, parse_vars, input_vars, users_vars, result_vars,
                   group_vars, all_summary>>

\* preprocess_data on both frames, and total_users_all
Preprocess ==
    /\ pc = "preprocess"
    /\ df_main_clean' = preprocess_data(df_main_clean, constants)
    /\ df_branch_clean' = preprocess_data(df_branch_clean, constants)
    /\ main_total_users' = nansum(df_main_clean, "users")
    /\ branch_total_users' = nansum(df_branch_clean, "users")
    /\ all_total_users' =
           FAdd(nansum(df_main_clean, "users"), nansum(df_branch_clean, "users"))
    /\ pc' = "rounded_segments"
    /\ UNCHANGED <<rerun_vars, flag_vars, parse_vars, input_vars, result_vars, group_vars,
                   all_summary>>

\* calculate_segment_indicators on both frames
RoundedSegments ==
    /\ pc = "rounded_segments"
    /\ df_main_result' =
           segment_indicators_rounded(df_main_clean, main_total_users, constants)
    /\ df_branch_result' =
           segment_indicators_rounded(df_branch_clean, branch_total_users,
                                      constants)
    /\ pc' = "summary_indicators"
    /\ UNCHANGED <<rerun_vars, flag_vars, parse_vars, input_vars, clean_vars, users_vars,
                   group_vars, all_summary>>

\* calculate_summary_indicators on both frames
SummaryIndicators ==
    /\ pc = "summary_indicators"
    /\ main_summary' =
           calculate_summary_indicators(df_main_result, main_total_users,
                                        constants)
    /\ branch_summary' =
           calculate_summary_indicators(df_branch_result, branch_total_users,
                                        constants)
    /\ pc' = "all_summary"
    /\ UNCHANGED <<rerun_vars, flag_vars, parse_vars, input_vars, clean_vars, users_vars,
                   result_vars, all_summary>>

\* the 全线路 record; the totals are numpy numbers, so a zero total gives nan
AllSummary ==
    /\ pc = "all_summary"
    /\ all_summary' = all_summary_reported(main_summary, branch_summary,
                                           main_total_users, branch_total_users,
                                           constants)
    /\ pc' = "reported"
    /\ UNCHANGED <<rerun_vars, flag_vars, parse_vars, input_vars, clean_vars, users_vars,
                   result_vars, group_vars>>

NextDocument ==
    Validate \/ Preprocess \/ RoundedSegments \/ SummaryIndicators \/ AllSummary

SpecDocument == InitDocument /\ [][NextDocument]_vars

\* ------------------------------------------------------------------------
\* SpecDefaults: steps 4 to 8 of run() under the default constants, for a
\* main line of one segment and a branch line of none
\* ------------------------------------------------------------------------

\* PD_VLY-300: 100%
DescVLY300 ==
    <<"P", "D", "_", "V", "L", "Y", "-", "3", "0", "0", ":", " ", "1", "0",
      "0", "%">>

DefaultLengths == {Num(1, 2), Num(1, 1), Num(2, 1), Num(3, 1)}
DefaultUsers == {Num(0, 1), Num(1, 1), Num(50, 1), Num(100, 1)}
DefaultFlags == {Bool(TRUE), Bool(FALSE), BoolText(TRUE_TEXT)}
DefaultDescs == {DescVLY300, DescMixed, DescOverhead, DescNone}

DefaultRows ==
    {[auto |-> a, length |-> l, users |-> u, desc |-> d] :
        a \in DefaultFlags, l \in DefaultLengths, u \in DefaultUsers,
        d \in DefaultDescs}

InitDefaults ==
    /\ pc = "wide_clean"
    /\ constants = DefaultConstants
    /\ \E r \in DefaultRows : df_main_mapped = Sheet(<<r>>)
    /\ df_branch_mapped = <<>>
    /\ NoParse
    /\ NoFlag
    /\ NoRerun
    /\ df_main_clean = Idle /\ df_branch_clean = Idle
    /\ main_total_users = 0 /\ branch_total_users = 0 /\ all_total_users = 0
    /\ df_main_result = Idle /\ df_branch_result = Idle
    /\ main_summary = Idle /\ branch_summary = Idle /\ all_summary = Idle

\* step 4: clean_data on both sheets
WideClean ==
    /\ pc = "wide_clean"
    /\ df_main_clean' = clean_data(df_main_mapped)
    /\ df_branch_clean' = clean_data(df_branch_mapped)
    /\ pc' = "wide_laying"
    /\ UNCHANGED <<rerun_vars, flag_vars, parse_vars, input_vars, users_vars, result_vars,
                   group_vars, all_summary>>

\* step 5: the parser and the isolation time
WideLaying ==
    /\ pc = "wide_laying"
    /\ df_main_clean' = wide_apply_laying(df_main_clean, constants)
    /\ df_branch_clean' = wide_apply_laying(df_branch_clean, constants)
    /\ pc' = "wide_users"
    /\ UNCHANGED <<rerun_vars, flag_vars, parse_vars, input_vars, users_vars, result_vars,
                   group_vars, all_summary>>

\* step 6: the total users
WideUsers ==
    /\ pc = "wide_users"
    /\ main_total_users' = total_users(df_main_clean)
    /\ branch_total_users' = total_users(df_branch_clean)
    /\ all_total_users' = total_users(df_main_clean) + total_users(df_branch_clean)
    /\ pc' = "wide_segments"
    /\ UNCHANGED <<rerun_vars, flag_vars, parse_vars, input_vars, clean_vars, result_vars,
                   group_vars, all_summary>>

\* step 7: calculate_segment_indicators on both lines
WideSegments ==
    /\ pc = "wide_segments"
    /\ df_main_result' =
           wide_segment_indicators(df_main_clean, main_total_users, constants)
    /\ df_branch_result' =
           wide_segment_indicators(df_branch_clean, branch_total_users, constants)
    /\ pc' = "wide_summary"
    /\ UNCHANGED <<rerun_vars, flag_vars, parse_vars, input_vars, clean_vars, users_vars,
                   group_vars, all_summary>>

\* step 8: calculate_summary on both lines
WideSummary ==
    /\ pc = "wide_summary"
    /\ main_summary' = wide_summary(df_main_result, main_total_users, constants)
    /\ branch_summary' =
           wide_summary(df_branch_result, branch_total_users, constants)
    /\ pc' = "wide_combine"
    /\ UNCHANGED <<rerun_vars, flag_vars, parse_vars, input_vars, clean_vars, users_vars,
                   result_vars, all_summary>>

NextDefaults ==
    WideClean \/ WideLaying \/ WideUsers \/ WideSegments \/ WideSummary

SpecDefaults == InitDefaults /\ [][NextDefaults]_vars

\* ------------------------------------------------------------------------
\* SpecIsolation: the three scripts' isolation rules applied to one flag
\* ------------------------------------------------------------------------

\* TRUE in every mix of upper and lower case
TrueSpellings ==
    {<<t, r, u, e>> : t \in {"t", "T"}, r \in {"r", "R"}, u \in {"u", "U"},
                      e \in {"e", "E"}}

OtherTexts ==
    {<<"Y", "E", "S">>, <<"1">>, <<"0">>, <<"T">>, <<>>,
     <<"N", "O", "T", " ", "T", "R", "U", "E">>,
     <<" ", "T", "R", "U", "E", " ">>,
     <<"F", "A", "L", "S", "E">>, <<"f", "a", "l", "s", "e">>,
     <<"n", "a", "n">>}

AutoFlags ==
    {Bool(TRUE), Bool(FALSE)}
        \cup {BoolText(t) : t \in TrueSpellings \cup OtherTexts}

InitIsolation ==
    /\ pc = "flag"
    /\ constants \in ConstantTables
    /\ auto_status \in AutoFlags
    /\ isolation_time = Idle
    /\ NoParse
    /\ NoRun
    /\ NoRerun

\* reliability_framework.py: get_isolation_time
IsolationFramework ==
    /\ pc = "flag"
    /\ isolation_time' = get_isolation_time(auto_status, constants)
    /\ pc' = "framework"
    /\ UNCHANGED <<rerun_vars, auto_status, parse_vars, input_vars, clean_vars, users_vars,
                   result_vars, group_vars, all_summary>>

\* reliability_calculation.py: preprocess_data
IsolationCalculation ==
    /\ pc = "flag"
    /\ isolation_time' = preprocess_isolation(auto_status, constants)
    /\ pc' = "calculation"
    /\ UNCHANGED <<rerun_vars, auto_status, parse_vars, input_vars, clean_vars, users_vars,
                   result_vars, group_vars, all_summary>>

\* reliability_algorithm.py: process_main and process_branch
IsolationAlgorithm ==
    /\ pc = "flag"
    /\ isolation_time' = r_iso(auto_status, constants)
    /\ pc' = "algorithm"
    /\ UNCHANGED <<rerun_vars, auto_status, parse_vars, input_vars, clean_vars, users_vars,
                   result_vars, group_vars, all_summary>>

NextIsolation == IsolationFramework \/ IsolationCalculation \/ IsolationAlgorithm

SpecIsolation == InitIsolation /\ [][NextIsolation]_vars

\* ------------------------------------------------------------------------
\* Claims about the parser (SpecParse)
\* ------------------------------------------------------------------------

\* what the token lines are expected to contribute: a token counts when it
\* has a name other than NONE and a percentage that float() accepts
Counts(tok) ==
    tok.w # NoWeight /\ tok.name # <<>> /\ upper(tok.name) # NONE

IsOverheadName(tok) == HasSub(upper(tok.name), JK)

\* the sum of the weights of the counting tokens toks[1..i] that are
\* (overhead = TRUE) or are not (overhead = FALSE) overhead tokens
RECURSIVE WeightSum(_, _, _)
WeightSum(toks, i, overhead) ==
    IF i = 0 THEN Zero
    ELSE IF Counts(toks[i]) /\ IsOverheadName(toks[i]) = overhead
         THEN FAdd(toks[i].w, WeightSum(toks, i - 1, overhead))
    ELSE WeightSum(toks, i - 1, overhead)

ExpectedCable == WeightSum(tokens, Len(tokens), FALSE)
ExpectedOverhead == WeightSum(tokens, Len(tokens), TRUE)
ExpectedTotal == FAdd(ExpectedCable, ExpectedOverhead)

InUnitInterval(x) == GeZero(x) /\ GeZero(FSub(One, x))

\* x lies between a and b, whichever of the two is the smaller
Between(x, a, b) ==
    \/ GeZero(FSub(x, a)) /\ GeZero(FSub(b, x))
    \/ GeZero(FSub(x, b)) /\ GeZero(FSub(a, x))

\* C1: for every descriptor the returned cableWeight and overheadWeight sum
\* to exactly 1.
C1_WeightsSumToOne ==
    pc = "parsed" => FAdd(parsed.cableWeight, parsed.overheadWeight) = One

\* C2: NONE tokens and tokens without a name are left out of both buckets and
\* of the normalization total: the returned weights are the sums of the other
\* tokens' percentages, by bucket, divided by the sum of only those
\* percentages (whenever that sum is not <= 0).
C2_NoneExcluded ==
    (pc = "parsed" /\ ~LeZero(ExpectedTotal)) =>
        /\ parsed.cableWeight = FDiv(ExpectedCable, ExpectedTotal)
        /\ parsed.overheadWeight = FDiv(ExpectedOverhead, ExpectedTotal)

\* C2 witness: the docstring example, JK 71.43% + None 14.29% + non-JK 14.29%
C2_Witness ==
    /\ pc = "parsed"
    /\ tokens = <<TokJK7143, TokNone1429, TokVLY1429>>
    /\ parsed.overheadWeight = <<7143, 8572>>
    /\ parsed.cableWeight = <<1429, 8572>>

\* C3: every counting token whose uppercased name contains JK adds its weight
\* to the overhead bucket and every other counting token to the cable bucket;
\* and when the total is <= 0 the result is cableWeight 0, overheadWeight 1,
\* faultRate = Overhead_Fault_Rate.
C3_JKRouting ==
    pc = "parsed" =>
        /\ buckets = <<ExpectedCable, ExpectedOverhead>>
        /\ LeZero(ExpectedTotal) =>
              /\ parsed.cableWeight = Zero
              /\ parsed.overheadWeight = One
              /\ parsed.faultRate = constants.Overhead_Fault_Rate

\* C3 witness: -50% of a cable name and 25% of a name that contains "jk" in
\* lower case have been routed to the cable and the overhead bucket; their
\* total is negative, so the result is the pure-overhead fallback
C3_Witness ==
    /\ pc = "parsed"
    /\ tokens = <<TokNeg, TokJkLow>>
    /\ buckets = <<Fin(-1, 2), Fin(1, 4)>>
    /\ parsed.cableWeight = Zero
    /\ parsed.overheadWeight = One
    /\ parsed.faultRate = constants.Overhead_Fault_Rate

\* C4: both returned weights lie in [0,1] and the returned faultRate lies
\* between Cable_Fault_Rate and Overhead_Fault_Rate.
C4_WeightsInUnitInterval ==
    pc = "parsed" =>
        /\ InUnitInterval(parsed.cableWeight)
        /\ InUnitInterval(parsed.overheadWeight)
        /\ Between(parsed.faultRate, constants.Cable_Fault_Rate,
                   constants.Overhead_Fault_Rate)

\* ------------------------------------------------------------------------
\* Claims about the run (Spec)
\* ------------------------------------------------------------------------

AfterSegments == {"summary", "combine", "done", "ZeroDivisionError"}
AfterSummary == {"combine", "done", "ZeroDivisionError"}

Metrics ==
    {"SAIDI_F", "SAIDI_S", "SAIDI_total", "SAIFI_F", "SAIFI_S", "SAIFI_total"}

\* the nine equations for the segment r of a line with U users
SegmentEquations(r, U, consts) ==
    /\ r.faultCount = FMul(r.length, r.faultRate)
    /\ r.faultDuration = FAdd(r.isolation, consts.Cable_Repair_Time)
    /\ r.SAIDI_F = FDiv(FMul(FMul(r.faultCount, r.faultDuration), r.users), U)
    /\ r.SAIFI_F = FDiv(FMul(r.faultCount, r.users), U)
    /\ r.scheduledCount = FMul(r.length, consts.Scheduled_Outage_Rate)
    /\ r.SAIDI_S =
           FDiv(FMul(FMul(r.scheduledCount, consts.Scheduled_Total_Time),
                     r.users), U)
    /\ r.SAIFI_S = FDiv(FMul(r.scheduledCount, r.users), U)
    /\ r.SAIDI_total = FAdd(r.SAIDI_F, r.SAIDI_S)
    /\ r.SAIFI_total = FAdd(r.SAIFI_F, r.SAIFI_S)

SegmentsHold(df, U, consts) ==
    \A i \in 1..Len(df) :
        (GtZero(df[i].users) /\ U > 0) => SegmentEquations(df[i], <<U, 1>>, consts)

\* C5: for every segment with userCount > 0 of a line with groupTotalUsers > 0
\* the indicators are faultCount = length * faultRate, faultDuration =
\* isolation + repair time, saidiF = faultCount * faultDuration * users / U,
\* saifiF = faultCount * users / U, scheduledCount = length * scheduled rate,
\* saidiS = scheduledCount * scheduled time * users / U, saifiS =
\* scheduledCount * users / U, and the totals are the sums F + S.
C5_SegmentIndicators ==
    pc \in AfterSegments =>
        /\ SegmentsHold(df_main_result, main_total_users, constants)
        /\ SegmentsHold(df_branch_result, branch_total_users, constants)

\* C5 witness: the second of two main segments, 2 of the line's 3 users, has
\* its indicators
C5_Witness ==
    /\ pc = "summary"
    /\ constants = TableA
    /\ main_total_users = 3
    /\ Len(df_main_result) = 2
    /\ df_main_result[2].users = Fin(2, 1)
    /\ df_main_result[2].faultCount = Fin(1, 4)
    /\ df_main_result[2].SAIDI_F = Fin(5, 6)
    /\ df_main_result[2].SAIDI_S = Fin(2, 15)

ZeroGroup(summary) ==
    /\ summary.ASAI = Hundred
    /\ \A col \in Metrics : summary[col] = Zero

\* C6: a line whose groupTotalUsers is 0 gets, from
\* calculate_segment_indicators and calculate_summary, a summary with ASAI
\* exactly 100 and the six intensity metrics exactly 0.
C6_ZeroUsersGroup ==
    pc \in AfterSummary =>
        /\ main_total_users = 0 => ZeroGroup(main_summary)
        /\ branch_total_users = 0 => ZeroGroup(branch_summary)

\* C6 witness: a main line of two segments, each of positive length and
\* without users, has been summarised
C6_Witness ==
    /\ pc = "combine"
    /\ main_total_users = 0
    /\ Len(df_main_result) = 2
    /\ \A i \in 1..2 : /\ df_main_result[i].users = Zero
                       /\ GtZero(df_main_result[i].length)
    /\ GtZero(main_summary.total_length)
    /\ ZeroGroup(main_summary)

\* C7: when the feeder's totalUsers is 0 the combination step completes
\* without a division fault and its record has the six intensity metrics 0
\* and ASAI 100.
C7_ZeroUsersFeeder ==
    (pc \in {"done", "ZeroDivisionError"} /\ all_total_users = 0) =>
        /\ pc = "done"
        /\ ZeroGroup(all_summary)

\* the user-weighted average of the groups' reported values of the column col
ReportedAverage(col) ==
    FDiv(FAdd(FMul(main_summary[col], <<main_total_users, 1>>),
              FMul(branch_summary[col], <<branch_total_users, 1>>)),
         <<all_total_users, 1>>)

\* C8: each feeder intensity metric, SAIDI_total and SAIFI_total included, is
\* the sum over the groups of the group's reported (rounded) value of that
\* metric times the group's users, divided by the feeder's users.
C8_FeederWeightedAverage ==
    (pc = "done" /\ all_total_users > 0) =>
        \A col \in Metrics :
            all_summary[col] = round(ReportedAverage(col), Digits6)

\* the feeder's combined SAIDI total: its SAIDI-F plus its SAIDI-S
CombinedSaidi == FAdd(ReportedAverage("SAIDI_F"), ReportedAverage("SAIDI_S"))

\* (totalUsers * annualHours - saidiTotal * totalUsers)
\*     / (totalUsers * annualHours) * 100
RecomputedAsai ==
    FMul(FDiv(FSub(FMul(<<all_total_users, 1>>, constants.Annual_Power_Hours),
                   FMul(CombinedSaidi, <<all_total_users, 1>>)),
              FMul(<<all_total_users, 1>>, constants.Annual_Power_Hours)),
         Hundred)

MeanGroupAsai == FDiv(FAdd(main_summary.ASAI, branch_summary.ASAI), <<2, 1>>)

\* C9: the feeder ASAI is the ASAI formula applied to the feeder's combined
\* SAIDI total and total users; and when the two groups have unequal user
\* counts and distinct SAIDI totals it differs from the mean of the two group
\* ASAIs.
C9_FeederAsaiRecomputed ==
    pc = "done" =>
        /\ all_summary.ASAI = round(RecomputedAsai, Digits6)
        /\ (/\ main_total_users # branch_total_users
            /\ main_summary.SAIDI_total # branch_summary.SAIDI_total)
           => all_summary.ASAI # MeanGroupAsai

\* C9 witness: a main line of 2 users and a branch of 1 user, with distinct
\* SAIDI totals, have been combined
C9_Witness ==
    /\ pc = "done"
    /\ main_total_users = 2
    /\ branch_total_users = 1
    /\ main_summary.SAIDI_total # branch_summary.SAIDI_total
    /\ GtZero(main_summary.SAIDI_total)
    /\ GtZero(branch_summary.SAIDI_total)
    /\ all_summary.ASAI = round(RecomputedAsai, Digits6)
    /\ all_summary.ASAI # MeanGroupAsai

\* ------------------------------------------------------------------------
\* Claims about clean_data (SpecClean)
\* ------------------------------------------------------------------------

\* the number a cell is expected to coerce to; NaN: none
ExpectedNumber(cell) ==
    IF cell.kind = "num" THEN cell.num
    ELSE IF cell = CellText THEN Fin(5, 2)
    ELSE IF cell = CellNegText THEN Fin(-3, 1)
    ELSE IF cell = Text(<<"0", ".", "5">>) THEN Fin(1, 2)
    ELSE NaN

IsKept(cell) == ExpectedNumber(cell) # NaN /\ ExpectedNumber(cell)[1] >= 0

KeptRow(r) == IsKept(r.length) /\ IsKept(r.users)

\* the rows of df expected to be kept, in their order, with both cells as
\* numbers
ExpectedClean(df) ==
    [i \in 1..Len(SelectSeq(df, KeptRow)) |->
        [SelectSeq(df, KeptRow)[i] EXCEPT
            !.length = ExpectedNumber(@), !.users = ExpectedNumber(@)]]

\* C10: clean_data returns exactly the input rows whose length and user count
\* both coerce to numbers >= 0, in their original order: rows with a negative,
\* missing or non-numeric value are dropped, rows with zero are kept, and no
\* value is replaced by a default.
C10_CleanKeepsNonNegative ==
    pc = "laying" =>
        /\ df_main_clean = ExpectedClean(df_main_mapped)
        /\ df_branch_clean = ExpectedClean(df_branch_mapped)

\* C10 witness: of a row with a negative length and a row with length 2.5
\* (as text) and zero users, the second alone has been kept
C10_Witness ==
    /\ pc = "laying"
    /\ Len(df_main_mapped) = 2
    /\ df_main_mapped[1].length = CellNegative
    /\ df_main_mapped[1].users = CellOne
    /\ df_main_mapped[2].length = CellText
    /\ df_main_mapped[2].users = CellZero
    /\ Len(df_main_clean) = 1
    /\ df_main_clean[1].id = 2
    /\ df_main_clean[1].length = Fin(5, 2)
    /\ df_main_clean[1].users = Zero

\* ------------------------------------------------------------------------
\* Claims about the isolation time (SpecIsolation)
\* ------------------------------------------------------------------------

\* the flag is the boolean true or a text that spells TRUE in some case
ExpectedAutomated ==
    \/ auto_status = Bool(TRUE)
    \/ auto_status.kind = "str" /\ auto_status.text \in TrueSpellings

ExpectedIsolation ==
    IF ExpectedAutomated THEN constants.Auto_Isolation_Time
    ELSE constants.Manual_Isolation_Time

\* C11: the isolation time is Auto_Isolation_Time exactly when the flag is
\* the boolean true or a string equal to TRUE ignoring case; for boolean
\* false and every other string it is Manual_Isolation_Time.
C11_IsolationByFlag ==
    pc \in {"framework", "calculation", "algorithm"} =>
        isolation_time = ExpectedIsolation

\* the same property for get_isolation_time and preprocess_data alone
C11_FrameworkAndCalculation ==
    pc \in {"framework", "calculation"} => isolation_time = ExpectedIsolation

\* ------------------------------------------------------------------------
\* Further claims about the run (Spec)
\* ------------------------------------------------------------------------

SummedColumns ==
    {"faultCount", "scheduledCount", "SAIDI_F", "SAIDI_S", "SAIFI_F", "SAIFI_S"}

\* the sum of the column col over those of the rows 1..i that have users
RECURSIVE ValidSum(_, _, _)
ValidSum(df, col, i) ==
    IF i = 0 THEN Zero
    ELSE IF GtZero(df[i].users) THEN FAdd(ValidSum(df, col, i - 1), df[i][col])
    ELSE ValidSum(df, col, i - 1)

ValidTotal(df, col) == ValidSum(df, col, Len(df))

\* (1 - saidi / hours) * 100 for a line with users, 100 for one without
ValidAsai(saidi, U, hours) ==
    IF U > 0 THEN FMul(FSub(One, FDiv(saidi, hours)), Hundred) ELSE Hundred

\* the summary of a line is what the segments with users alone sum to
SummaryOfValid(df, summary, U, consts) ==
    /\ summary.total_fault_count = round(ValidTotal(df, "faultCount"), Digits6)
    /\ summary.total_scheduled_count =
           round(ValidTotal(df, "scheduledCount"), Digits6)
    /\ summary.SAIDI_F = round(ValidTotal(df, "SAIDI_F"), Digits6)
    /\ summary.SAIDI_S = round(ValidTotal(df, "SAIDI_S"), Digits6)
    /\ summary.SAIFI_F = round(ValidTotal(df, "SAIFI_F"), Digits6)
    /\ summary.SAIFI_S = round(ValidTotal(df, "SAIFI_S"), Digits6)
    /\ summary.SAIDI_total =
           round(FAdd(ValidTotal(df, "SAIDI_F"), ValidTotal(df, "SAIDI_S")),
                 Digits6)
    /\ summary.SAIFI_total =
           round(FAdd(ValidTotal(df, "SAIFI_F"), ValidTotal(df, "SAIFI_S")),
                 Digits6)
    /\ summary.ASAI =
           round(ValidAsai(FAdd(ValidTotal(df, "SAIDI_F"),
                                ValidTotal(df, "SAIDI_S")),
                           U, consts.Annual_Power_Hours), Digits6)

ZeroUserRowsAddNothing(df) ==
    \A i \in 1..Len(df) :
        df[i].users = Zero => \A col \in SummedColumns : df[i][col] = Zero

\* C12: a segment with userCount 0 contributes zero to each of the six group
\* sums, so the group's summed counts, intensity metrics and ASAI are those
\* of its segments with users alone, however many zero-user segments of
\* whatever length the group holds.
C12_ZeroUserSegmentsAddNothing ==
    pc \in AfterSummary =>
        /\ ZeroUserRowsAddNothing(df_main_result)
        /\ ZeroUserRowsAddNothing(df_branch_result)
        /\ SummaryOfValid(df_main_result, main_summary, main_total_users,
                          constants)
        /\ SummaryOfValid(df_branch_result, branch_summary, branch_total_users,
                          constants)

\* C12 witness: a main line of one segment with users and one of positive
\* length without users has been summarised
C12_Witness ==
    /\ pc = "combine"
    /\ Len(df_main_result) = 2
    /\ GtZero(df_main_result[1].users)
    /\ df_main_result[2].users = Zero
    /\ GtZero(df_main_result[2].length)
    /\ GtZero(main_summary.SAIDI_F)
    /\ main_summary.total_fault_count = round(df_main_result[1].faultCount, Digits6)

DerivedColumns ==
    {"faultCount", "faultDuration", "SAIDI_F", "SAIFI_F", "scheduledCount",
     "SAIDI_S", "SAIFI_S", "SAIDI_total", "SAIFI_total"}

InvalidRowsAllZero(df) ==
    \A i \in 1..Len(df) :
        df[i].users = Zero => \A col \in DerivedColumns : df[i][col] = Zero

\* C13: for a segment with userCount 0, calculate_segment_indicators sets
\* every derived field of the segment's record to 0: faultCount,
\* faultDuration, saidiF, saifiF, scheduledCount, saidiS, saifiS, saidiTotal
\* and saifiTotal.
C13_InvalidSegmentAllZero ==
    pc \in AfterSegments =>
        /\ InvalidRowsAllZero(df_main_result)
        /\ InvalidRowsAllZero(df_branch_result)

AfterUsers == {"segments"} \cup AfterSegments

\* U is the exact sum of the users of the cleaned rows: the shares of a line
\* with users sum to 1, and a line has no users only when no row has any
ExactTotalUsers(df, U) ==
    /\ <<U, 1>> = ValidTotal(df, "users")
    /\ U > 0 => FDiv(ValidTotal(df, "users"), <<U, 1>>) = One
    /\ U = 0 => \A i \in 1..Len(df) : df[i].users = Zero

\* C14: the groupTotalUsers used as denominator and reported in the group
\* record is the exact sum of userCount over the group's cleaned segments;
\* so with groupTotalUsers > 0 the shares userCount/groupTotalUsers sum to 1,
\* and groupTotalUsers is 0 only when every cleaned segment has userCount 0.
C14_TotalUsersExactSum ==
    /\ pc \in AfterUsers =>
          /\ ExactTotalUsers(df_main_clean, main_total_users)
          /\ ExactTotalUsers(df_branch_clean, branch_total_users)
    /\ pc \in AfterSummary =>
          /\ main_summary.total_users = main_total_users
          /\ branch_summary.total_users = branch_total_users

AdditiveFields == {"total_length", "total_fault_count", "total_scheduled_count"}

\* C15: in the feeder record totalUsers is the exact sum of the groups'
\* groupTotalUsers, and totalLength, totalFaultCount and totalScheduledCount
\* are the plain sums of the values reported in the group records.
C15_FeederAdditiveFields ==
    pc = "done" =>
        /\ all_summary.total_users =
               main_summary.total_users + branch_summary.total_users
        /\ all_total_users = main_total_users + branch_total_users
        /\ \A col \in AdditiveFields :
               all_summary[col] = FAdd(main_summary[col], branch_summary[col])

\* C15 witness: a main line of 3 km with 3 users and a branch of 1 km with
\* 1 user have been combined
C15_Witness ==
    /\ pc = "done"
    /\ main_summary.total_users = 3
    /\ branch_summary.total_users = 1
    /\ all_summary.total_users = 4
    /\ main_summary.total_length = Fin(3, 1)
    /\ branch_summary.total_length = One
    /\ all_summary.total_length = Fin(4, 1)
    /\ GtZero(branch_summary.total_fault_count)
    /\ all_summary.total_fault_count =
           FAdd(main_summary.total_fault_count, branch_summary.total_fault_count)

\* the largest user count the two ASAI formulations are compared for
MaxAsaiUsers == 4

\* saidi_total of calculate_summary, before rounding
SaidiTotal(df) == FAdd(sum(df, "SAIDI_F"), sum(df, "SAIDI_S"))

\* the two formulations agree on the SAIDI total s, whatever the user count
FormulationsAgree(s, hours) ==
    \A u \in 1..MaxAsaiUsers :
        asai_formula(s, <<u, 1>>, hours) = summarize_asai(s, hours)

\* C16: for every groupTotalUsers > 0 and every saidiTotal,
\* ((users*hours - saidiTotal*users)/(users*hours))*100 of calculate_summary
\* equals (1 - saidiTotal/hours)*100 of reliability_algorithm.summarize, so
\* the group ASAI does not depend on the user count.
C16_AsaiFormulationsAgree ==
    pc \in AfterSummary =>
        /\ FormulationsAgree(SaidiTotal(df_main_result),
                             constants.Annual_Power_Hours)
        /\ FormulationsAgree(SaidiTotal(df_branch_result),
                             constants.Annual_Power_Hours)
        /\ main_total_users > 0 =>
               main_summary.ASAI =
                   round(summarize_asai(SaidiTotal(df_main_result),
                                        constants.Annual_Power_Hours), Digits6)
        /\ branch_total_users > 0 =>
               branch_summary.ASAI =
                   round(summarize_asai(SaidiTotal(df_branch_result),
                                        constants.Annual_Power_Hours), Digits6)

\* C16 witness: a main line of 3 users with a SAIDI total of 137/120 h has
\* the ASAI 100 - 137/120 of both formulations, rounded
C16_Witness ==
    /\ pc = "combine"
    /\ main_total_users = 3
    /\ SaidiTotal(df_main_result) = Fin(137, 120)
    /\ asai_formula(Fin(137, 120), Fin(3, 1), Hundred) = Fin(11863, 120)
    /\ summarize_asai(Fin(137, 120), Hundred) = Fin(11863, 120)
    /\ main_summary.ASAI = Fin(98858333, 1000000)

\* C17 (the part about groups): whenever the main or the branch sheet holds
\* no segments at all, the run aborts before any group or feeder summary is
\* produced.
C17_AbortOnEmptyGroup ==
    (Len(df_main_mapped) = 0 \/ Len(df_branch_mapped) = 0) =>
        /\ pc \notin {"combine", "done"}
        /\ main_summary = Idle
        /\ branch_summary = Idle
        /\ all_summary = Idle

\* ------------------------------------------------------------------------
\* C18: rounding at the output only
\* ------------------------------------------------------------------------

Reported == {"all_summary", "reported"}

\* the value of a SAIDI or SAIFI column of one segment before .round(6)
Unrounded(r, col, U, consts) ==
    CASE col = "SAIDI_F" ->
             per_user(r.valid, FMul(FMul(r.faultCount, r.faultDuration), r.users), U)
      [] col = "SAIFI_F" -> per_user(r.valid, FMul(r.faultCount, r.users), U)
      [] col = "SAIDI_S" ->
             per_user(r.valid,
                      FMul(FMul(r.scheduledCount, consts.Scheduled_Total_Time),
                           r.users), U)
      [] col = "SAIFI_S" -> per_user(r.valid, FMul(r.scheduledCount, r.users), U)
      [] OTHER -> r[col]

RECURSIVE UnroundedSum(_, _, _, _, _)
UnroundedSum(df, col, U, consts, i) ==
    IF i = 0 THEN Zero
    ELSE IF IsNaN(Unrounded(df[i], col, U, consts))
    THEN UnroundedSum(df, col, U, consts, i - 1)
    ELSE FAdd(UnroundedSum(df, col, U, consts, i - 1),
              Unrounded(df[i], col, U, consts))

SumFields ==
    {<<"SAIDI_F", "SAIDI_F">>, <<"SAIDI_S", "SAIDI_S">>,
     <<"SAIFI_F", "SAIFI_F">>, <<"SAIFI_S", "SAIFI_S">>,
     <<"total_fault_count", "faultCount">>,
     <<"total_scheduled_count", "scheduledCount">>}

SumsOfUnrounded(summary, df, U) ==
    \A f \in SumFields :
        summary[f[1]] = round(UnroundedSum(df, f[2], U, constants, Len(df)), Digits6)

DetailRounded(df) ==
    \A i \in 1..Len(df) :
        \A col \in DerivedColumns : df[i][col] = round(df[i][col], Digits6)

\* C18: in reliability_calculation.py every group sum equals the sum of the
\* unrounded per-segment values, rounded to 6 decimals once, and every derived
\* value of the per-segment detail records is rounded to 6 decimals.
C18_RoundingAtOutputOnly ==
    pc \in Reported =>
        /\ SumsOfUnrounded(main_summary, df_main_result, main_total_users)
        /\ SumsOfUnrounded(branch_summary, df_branch_result, branch_total_users)
        /\ DetailRounded(df_main_result)
        /\ DetailRounded(df_branch_result)

\* C18, the detail half in reliability_framework.py: the per-segment records
\* written to the detail sheets carry values rounded to 6 decimals.
C18_FrameworkDetailRounded ==
    pc \in AfterSegments =>
        /\ DetailRounded(df_main_result)
        /\ DetailRounded(df_branch_result)

\* ------------------------------------------------------------------------
\* C19: the worked example under the default constants
\* ------------------------------------------------------------------------

ExampleRow ==
    [auto |-> Bool(TRUE), length |-> Num(2, 1), users |-> Num(100, 1),
     desc |-> DescVLY300]

ExampleDone ==
    /\ pc = "wide_combine"
    /\ constants = DefaultConstants
    /\ df_main_mapped = Sheet(<<ExampleRow>>)

\* the decimal n / 10^digits
Decimal(n, digits) == <<BDigits(n), BPow10(digits)>>

\* x written to the given number of decimals is n / 10^digits
RoundsTo(x, n, digits) == WEq(wide_round(x, digits), Decimal(n, digits))

\* the decimal expansion of x starts with that of n / 10^digits
StartsWith(x, n, digits) ==
    /\ WLe(Decimal(n, digits), x)
    /\ ~WLe(Decimal(n + 1, digits), x)

\* the values of the example that the code and the text agree on
ExampleAgreed(r) ==
    /\ WEq(r.faultRate, Decimal(9282879, 8))
    /\ WEq(r.faultCount, Decimal(18565758, 8))
    /\ WEq(r.faultDuration, Decimal(363, 2))
    /\ WEq(r.SAIFI_F, Decimal(18565758, 8))
    /\ WEq(r.scheduledCount, Decimal(442, 4))
    /\ WEq(r.SAIDI_S, Decimal(241995, 6))
    /\ WEq(r.SAIFI_S, Decimal(442, 4))

\* C19 as stated: the example yields faultRate 0.09282879, faultCount
\* 0.18565758, faultDuration 3.63, saidiF 0.674137..., saifiF 0.18565758,
\* scheduledCount 0.0442, saidiS 0.241995, saifiS 0.0442 and a group ASAI of
\* 99.98957 to five decimals.
C19_DefaultExample ==
    ExampleDone =>
        /\ ExampleAgreed(df_main_result[1])
        /\ StartsWith(df_main_result[1].SAIDI_F, 674137, 6)
        /\ RoundsTo(main_summary.ASAI, 9998957, 5)

\* 0.6739370154
ExampleSaidiF == <<<<67, 3937, 154>>, <<100, 0, 0>>>>

\* C19, amended: the example yields the same values except saidiF, which is
\* 0.18565758 * 3.63 = 0.6739370154, and the group ASAI, which is reported as
\* 99.989544, that is 99.98954 to five decimals.
C19_DefaultExampleAmended ==
    ExampleDone =>
        /\ ExampleAgreed(df_main_result[1])
        /\ WEq(df_main_result[1].SAIDI_F, ExampleSaidiF)
        /\ StartsWith(df_main_result[1].SAIDI_F, 673937, 6)
        /\ WEq(main_summary.ASAI, Decimal(99989544, 6))
        /\ RoundsTo(main_summary.ASAI, 9998954, 5)

C19_Witness ==
    /\ ExampleDone
    /\ Len(df_main_result) = 1
    /\ main_total_users = 100

\* ------------------------------------------------------------------------
\* C20: two runs over the same inputs
\* ------------------------------------------------------------------------

InputsAsGiven ==
    /\ constants = given.constants
    /\ df_main_mapped = given.main
    /\ df_branch_mapped = given.branch

HasTextCell(df) == \E i \in 1..Len(df) : df[i].length.kind = "str"

ForwardOrder ==
    {<<"clean", "laying">>, <<"laying", "users">>, <<"users", "segments">>,
     <<"segments", "summary">>, <<"summary", "combine">>, <<"combine", "done">>,
     <<"combine", "ZeroDivisionError">>}

BeforeSegments == {"clean", "laying", "users", "segments"}
BeforeSummary == BeforeSegments \cup {"summary"}
BeforeCombine == BeforeSummary \cup {"combine"}

\* what a stage about to run cannot read, because no stage has produced it yet
LaterOutputsAbsent ==
    /\ pc \in BeforeSegments => df_main_result = Idle /\ df_branch_result = Idle
    /\ pc \in BeforeSummary => main_summary = Idle /\ branch_summary = Idle
    /\ pc \in BeforeCombine => all_summary = Idle

\* what a stage leaves as the stages before it produced it
EarlierOutputsKept ==
    /\ pc \in AfterUsers => UNCHANGED <<clean_vars, users_vars>>
    /\ pc \in AfterSegments => UNCHANGED result_vars
    /\ pc \in AfterSummary => UNCHANGED group_vars

StageStep ==
    /\ <<pc, pc'>> \in ForwardOrder
    /\ LaterOutputsAbsent
    /\ EarlierOutputsKept

\* C21: every step of a run goes from one stage to the next in the order
\* cleaning, parsing, totals, segment indicators, group aggregation, feeder
\* combination; when a stage runs, no output of a later stage exists yet, and
\* it leaves the outputs of the stages before it as they were.
C21_StagesRunForward == [][StageStep]_vars

C21_Witness ==
    /\ pc = "done"
    /\ Len(df_main_result) > 0
    /\ Len(df_branch_result) > 0
    /\ main_summary # Idle
    /\ all_summary # Idle
    /\ all_total_users > 0

\* ------------------------------------------------------------------------
\* C22: rows that fail the validation of reliability_calculation.py
\* ------------------------------------------------------------------------

AfterPreprocess == {"rounded_segments", "summary_indicators", "all_summary", "reported"}
AfterRoundedSegments == {"summary_indicators", "all_summary", "reported"}

\* the rows of a sheet that pass the filter of the validation loop
PassingRows(df) == Len(validated(df))

\* C22: once the validation loop has run, a row whose length or user count is
\* negative or not a number is in no later working set: the group's total
\* users are those of the rows that pass, and the segment detail has one row
\* for each row that passes.
C22_InvalidRowsRemoved ==
    /\ pc \in AfterPreprocess =>
           /\ Len(df_main_clean) = PassingRows(df_main_mapped)
           /\ Len(df_branch_clean) = PassingRows(df_branch_mapped)
           /\ main_total_users = nansum(validated(df_main_mapped), "users")
           /\ branch_total_users = nansum(validated(df_branch_mapped), "users")
    /\ pc \in AfterRoundedSegments =>
           /\ Len(df_main_result) = PassingRows(df_main_mapped)
           /\ Len(df_branch_result) = PassingRows(df_branch_mapped)

\* ------------------------------------------------------------------------
\* reliability_algorithm.py: contributions over one feeder-wide denominator
\* ------------------------------------------------------------------------

\* (lambda * L * hours * n) / N
saidi_cont(lambda, L, hours, n, N) ==
    FDiv(FMul(FMul(FMul(lambda, L), hours), n), N)

\* (lambda * L * n) / N
saifi_cont(lambda, L, n, N) ==
    FDiv(FMul(FMul(lambda, L), n), N)

\* the four contribution columns of a segment.  The rates and times are the
\* segment's own (fault rate, isolation plus repair time) and the table's
\* scheduled rate and time, where the script reads them from CONFIG.
contributions(r, N, consts) ==
    [saidi_f_cont |->
         saidi_cont(r.faultRate, r.length,
                    FAdd(consts.Cable_Repair_Time, r.isolation), r.users,
                    N),
     saidi_s_cont |->
         saidi_cont(consts.Scheduled_Outage_Rate, r.length,
                    consts.Scheduled_Total_Time, r.users, N),
     saifi_f_cont |-> saifi_cont(r.faultRate, r.length, r.users, N),
     saifi_s_cont |->
         saifi_cont(consts.Scheduled_Outage_Rate, r.length, r.users,
                    N)]

process_rows(df, N, consts) ==
    [i \in 1..Len(df) |-> contributions(df[i], N, consts)]

\* summarize: the column sums of the concatenated frames
summarize(df_list, col) == sum(df_list[1] \o df_list[2], col)

\* ------------------------------------------------------------------------
\* C23: group denominators and weighting against one feeder denominator
\* ------------------------------------------------------------------------

IntensityColumns ==
    {<<"SAIDI_F", "saidi_f_cont">>, <<"SAIDI_S", "saidi_s_cont">>,
     <<"SAIFI_F", "saifi_f_cont">>, <<"SAIFI_S", "saifi_s_cont">>}

\* a group's sums before round(..., 6)
GroupSums(df) == [c \in {p[1] : p \in IntensityColumns} |-> sum(df, c)]

\* the feeder value of step 9 computed from the unrounded group sums
WeightedOfGroups(col) ==
    weighted(GroupSums(df_main_result), GroupSums(df_branch_result), col,
             main_total_users, branch_total_users)

\* the feeder value over the one denominator all_total_users
OverFeederUsers(col) ==
    summarize(<<process_rows(df_main_result, <<all_total_users, 1>>, constants),
                process_rows(df_branch_result, <<all_total_users, 1>>, constants)>>,
              col)

WholeUsers(df) == \A i \in 1..Len(df) : df[i].users[2] = 1

\* C23: rounding left aside, with feeder users above zero each of SAIDI-F,
\* SAIDI-S, SAIFI-F, SAIFI-S obtained from group denominators and user
\* weighting equals the sum over all segments of both groups of
\* count * duration * users / feeder users.
C23_SingleDenominatorEquivalence ==
    (pc \in AfterSegments /\ all_total_users > 0) =>
        \A p \in IntensityColumns : WeightedOfGroups(p[1]) = OverFeederUsers(p[2])

\* the same for sheets whose user counts are whole numbers
C23_WholeUsersEquivalence ==
    (/\ pc \in AfterSegments
     /\ all_total_users > 0
     /\ WholeUsers(df_main_clean)
     /\ WholeUsers(df_branch_clean)) =>
        \A p \in IntensityColumns : WeightedOfGroups(p[1]) = OverFeederUsers(p[2])
====
